---- MODULE Spec2Model ----
(***************************************************************************)
(* Splice batch license generator: the popup's batch pipeline              *)
(* (processSamples / processSamplesBatch / findBestMatch), the service     *)
(* worker's searchSamples / generateLicense, the content script's          *)
(* generateLicense handler, the license-info store, and the cookie based   *)
(* session check (checkAuthViaCookies).                                    *)
(*                                                                         *)
(* JavaScript values: a string that takes part in case folding, trimming   *)
(* or substring tests is a sequence of one-character strings; every other  *)
(* string is a TLA+ string.  undefined and null are the strings Undef and  *)
(* Null in fields that hold strings.                                       *)
(***************************************************************************)
EXTENDS Integers, Sequences, FiniteSets, TLC

VARIABLES
  \* popup (PopupManager)
  isProcessing, samples, results, idx, pc, bestMatch,
  \* chrome.runtime messaging between popup, service worker, content script
  pending, responses, csPending,
  \* history of one batch run (what a mock of each layer would record)
  searchLog, selectLog, licenseLog, forwardLog, mutationLog, absentAllRun,
  \* what updateProgress was called with, and how many results stood then
  progressLog,
  \* chrome.storage.local
  licenseInfo,
  \* findBestMatch applied to drawn inputs
  mQuery, mCands, mResult, mDone,
  \* SpliceSessionManager.checkAuthViaCookies on the cookie store
  cookieJar, nowSec, cookieAuth,
  \* SpliceSessionManager (service worker): the cache, the clock, one call of
  \* checkUserLoggedIn in progress, and what the last call returned
  sessionCache, sessionTimestamp, clockMs, ticks, authPc, authCookie, authCall,
  authReturn, changedSince,
  \* the popup's session check (init / checkAuthentication) and the check
  \* that stood when the current batch run started
  gate, runGate,
  \* validateSampleInput and processSamples on drawn raw input
  vLines, vValidation, vDone,
  \* executeInPageContext applied to drawn answers of the remote service
  rRemote, rResult, rDone,
  \* getAuthToken: the wait of the content script for the page script, and
  \* how each wait ended
  tokenWait, tokenLog,
  \* one call of searchSamples: its query, the tabs and the reply it meets,
  \* and what it returns (in the current and in the earlier revision)
  sQuery, sActive, sTabs, sReply, sResult, sEarlier, sDone,
  \* the popup's saved state: chrome.storage.local['popup_state'], whether
  \* a popup is open, its input field and currentResults, what the last
  \* restoreState did, and whether clearResults was the last handler to run
  popupState, popupOpen, sampleInput, currentResults, restored, cleared,
  \* two calls of the Resolver on one unchanged remote state: the strategy,
  \* the reply of the search API, the rows of the search page, and the
  \* candidates each call returned
  dStrategy, dReply, dPage, dCalls, dFirst, dSecond,
  \* the page script's token handler on a drawn localStorage, and its answer
  pageStorage, pageAnswer,
  \* the content script's message listener on a drawn message, and its reply
  csMessage, csAnswer,
  \* the service worker's message listener: the messages being handled, the
  \* responses sent so far, and the number of the next message
  swPending, swReplies, swNext,
  \* overlapping getAuthToken calls of the content script, and the messages
  \* posted to the window and not yet delivered
  tokenRequests, windowMessages

popupVars == <<isProcessing, samples, results, idx, pc, bestMatch>>
netVars == <<pending, responses, csPending>>
logVars == <<searchLog, selectLog, licenseLog, forwardLog, mutationLog, absentAllRun,
             progressLog>>
batchVars == <<popupVars, netVars, logVars, licenseInfo>>
matchVars == <<mQuery, mCands, mResult, mDone>>
cookieVars == <<cookieJar, nowSec, cookieAuth>>
sessionVars == <<sessionCache, sessionTimestamp, clockMs, ticks, authPc, authCookie,
                 authCall, authReturn, changedSince>>
\* the state of the machines added after the cookie check
gateVars == <<gate, runGate>>
inputVars == <<vLines, vValidation, vDone>>
remoteVars == <<rRemote, rResult, rDone>>
\* the machines that apply one function to drawn inputs
searchVars == <<sQuery, sActive, sTabs, sReply, sResult, sEarlier, sDone>>
stateVars == <<popupState, popupOpen, sampleInput, currentResults, restored, cleared>>
twiceVars == <<dStrategy, dReply, dPage, dCalls, dFirst, dSecond>>
pageVars == <<pageStorage, pageAnswer>>
listenerVars == <<csMessage, csAnswer>>
workerVars == <<swPending, swReplies, swNext>>
overlapVars == <<tokenRequests, windowMessages>>
handlerVars == <<pageVars, listenerVars, workerVars, overlapVars>>
pureVars == <<inputVars, remoteVars, searchVars, stateVars, twiceVars,
   handlerVars>>
tokenVars == <<tokenWait, tokenLog>>
laterVars == <<sessionVars, gateVars, pureVars, tokenVars>>
\* what the validation of a raw input leaves alone, the batch apart
offInput == <<matchVars, cookieVars, sessionVars, gateVars, remoteVars, tokenVars,
              searchVars, stateVars, twiceVars,
   handlerVars>>
\* what the mapping of a remote answer leaves alone
offRemote == <<batchVars, matchVars, cookieVars, sessionVars, gateVars, inputVars,
               tokenVars, searchVars, stateVars, twiceVars,
   handlerVars>>
vars == <<batchVars, matchVars, cookieVars, laterVars>>
\* what a step of the batch run leaves alone
offBatch == <<matchVars, cookieVars, laterVars>>

----------------------------------------------------------------------------
(* Bounds of the model *)

\* lines of raw input typed into the popup
MaxLines == 2
\* length of a name given to findBestMatch
MaxNameLen == 2
\* length of a candidate list given to findBestMatch
MaxCands == 2
\* cookies in the cookie store
MaxCookies == 2
\* the clock of the session check, in seconds
MaxTime == 2
\* advances of the clock during the life of the session cache
MaxTicks == 3
\* names in a raw input given to validateSampleInput
MaxInputNames == 22
\* blank lines before the names of a raw input
MaxBlankLines == 2
\* rows of the search page
MaxRows == 2

----------------------------------------------------------------------------
(* JavaScript values *)

Undef == "undefined"
Null == "null"
NoName == <<"<undefined>">>

\* String.prototype.toLowerCase on one character
LowerChar(c) == CASE c = "A" -> "a" [] c = "B" -> "b" [] OTHER -> c

toLowerCase(s) == [k \in 1..Len(s) |-> LowerChar(s[k])]

\* String.prototype.includes
includes(s, t) ==
  \E k \in 0..(Len(s) - Len(t)) : SubSeq(s, k + 1, k + Len(t)) = t

IsSpace(c) == c = " "

RECURSIVE trimStart(_)
trimStart(s) ==
  IF s # <<>> /\ IsSpace(Head(s)) THEN trimStart(Tail(s)) ELSE s

RECURSIVE trimEnd(_)
trimEnd(s) ==
  IF s # <<>> /\ IsSpace(s[Len(s)]) THEN trimEnd(SubSeq(s, 1, Len(s) - 1)) ELSE s

\* String.prototype.trim
trim(s) == trimEnd(trimStart(s))

\* Array.prototype.filter
RECURSIVE SelectNonEmpty(_)
SelectNonEmpty(q) ==
  IF q = <<>> THEN <<>>
  ELSE IF Len(Head(q)) > 0 THEN <<Head(q)>> \o SelectNonEmpty(Tail(q))
  ELSE SelectNonEmpty(Tail(q))

\* the sequences over S of length 0..n
SeqUpTo(S, n) == UNION {[1..k -> S] : k \in 0..n}

----------------------------------------------------------------------------
(* ExtensionUtils.validateSampleInput (shared/utils.js) *)

\* "Maximum 20 samples allowed per batch"
MaxSamplesPerBatch == 20

\* the limit applied from the twentieth name on
validateSampleInputOffByOne(lines) ==
  LET trimmed == [k \in 1..Len(lines) |-> trim(lines[k])]
      names == SelectNonEmpty(trimmed)
      ok == Len(names) # 0 /\ ~(Len(names) >= MaxSamplesPerBatch)
  IN  IF lines = << <<>> >> THEN [isValid |-> FALSE, samples |-> <<>>]
      ELSE [isValid |-> ok, samples |-> IF ok THEN names ELSE <<>>]

\* lines is input.split('\n'): a non-empty sequence of lines; the empty string,
\* which !input rejects, splits into the one empty line
validateSampleInput(lines) ==
  LET trimmed == [k \in 1..Len(lines) |-> trim(lines[k])]
      names == SelectNonEmpty(trimmed)
      ok == Len(names) # 0 /\ ~(Len(names) > MaxSamplesPerBatch)
  IN  IF lines = << <<>> >> THEN [isValid |-> FALSE, samples |-> <<>>]
      ELSE [isValid |-> ok, samples |-> IF ok THEN names ELSE <<>>]

----------------------------------------------------------------------------
(* PopupManager.findBestMatch (popup/popup.js) *)

NoMatch == [id |-> Null, name |-> NoName, inLibrary |-> FALSE]

\* result.name && ... : a missing or empty name is falsy
HasName(r) == r.name # NoName /\ r.name # <<>>

\* Array.prototype.find: index of the first element satisfying P, 0 if none
FirstIndex(q, P(_)) ==
  IF \E k \in 1..Len(q) : P(q[k])
  THEN CHOOSE k \in 1..Len(q) : P(q[k]) /\ \A j \in 1..(k - 1) : ~P(q[j])
  ELSE 0

IsExact(sampleName, r) ==
  HasName(r) /\ toLowerCase(r.name) = toLowerCase(sampleName)

IsPartial(sampleName, r) ==
  HasName(r) /\ includes(toLowerCase(r.name), toLowerCase(sampleName))

\* the partial match tried before the exact match
findBestMatchPartialFirst(sampleName, searchResults) ==
  LET Exact(r) == IsExact(sampleName, r)
      Partial(r) == IsPartial(sampleName, r)
      e == FirstIndex(searchResults, Exact)
      p == FirstIndex(searchResults, Partial)
  IN  IF Len(searchResults) = 0 THEN NoMatch
      ELSE IF p # 0 THEN searchResults[p]
      ELSE IF e # 0 THEN searchResults[e]
      ELSE searchResults[1]

findBestMatch(sampleName, searchResults) ==
  LET Exact(r) == IsExact(sampleName, r)
      Partial(r) == IsPartial(sampleName, r)
      e == FirstIndex(searchResults, Exact)
      p == FirstIndex(searchResults, Partial)
  IN  IF Len(searchResults) = 0 THEN NoMatch
      ELSE IF e # 0 THEN searchResults[e]
      ELSE IF p # 0 THEN searchResults[p]
      ELSE searchResults[1]

----------------------------------------------------------------------------
(* LicenseInfoEncryption (shared/encryption.js) and the stored licenseInfo *)

\* A stored value is described by what the decoders make of it: whether atob
\* accepts it, whether JSON.parse accepts the decoded text, and the object
\* the text denotes.  present = FALSE is a missing (or falsy) storage entry.
Stored(b64, json, legal, artist) ==
  [present |-> TRUE, b64 |-> b64, json |-> json,
   legalName |-> legal, artistName |-> artist]

Absent ==
  [present |-> FALSE, b64 |-> FALSE, json |-> FALSE,
   legalName |-> Undef, artistName |-> Undef]

\* JSON.stringify followed by btoa
encrypt(data) == Stored(TRUE, TRUE, data.legalName, data.artistName)

\* atob(encryptedData) throws on a string that is not base64
atobThrows(s) == ~s.b64

\* JSON.parse(decoded) throws on a text that is not JSON
parseThrows(s) == ~s.json

\* atob followed by JSON.parse, when neither throws
decoded(s) == [legalName |-> s.legalName, artistName |-> s.artistName]

\* !data.legalName || typeof ... || data.legalName.trim() === ''
FieldMissing(v) == v = Undef \/ v = "" \/ v = " "

validate(data) == ~FieldMissing(data.legalName) /\ ~FieldMissing(data.artistName)

\* the values the options form can hold (after .trim()) and a file can carry
FormValues == {"", "Jane Doe"}

ImportValues ==
  { Stored(TRUE, TRUE, "Jane Doe", "Jane Doe"),   \* an exported identity
    Stored(FALSE, FALSE, Undef, Undef) }          \* not base64

----------------------------------------------------------------------------
(* Values exchanged between the layers *)

\* a JavaScript string used as a condition
Truthy(v) == v # Undef /\ v # Null /\ v # ""

\* a || b on strings
Or(a, b) == IF Truthy(a) THEN a ELSE b

\* what a handler returns to its caller: every field is always there, Undef
\* standing for a property the object does not have
Value(success, res, error, url) ==
  [success |-> success, results |-> res, error |-> error, downloadUrl |-> url]

Failure(error) == Value(FALSE, <<>>, error, Undef)

\* the outcome of an awaited sendMessage: the value it resolved with, a
\* resolution with undefined, or a rejection carrying an error message
Resolved(val) == [kind |-> "value", val |-> val]
ResolvedUndefined == [kind |-> "undefined", val |-> Failure(Undef)]
Rejected(message) == [kind |-> "throw", val |-> Failure(message)]

MsgNoReceiver == "Could not establish connection. Receiving end does not exist."
MsgContextInvalidated == "Extension context invalidated"
MsgPortClosed == "The message port closed before a response was received."
MsgUndefinedSuccess == "Cannot read properties of undefined (reading 'success')"

\* error.message.includes('Receiving end does not exist')
IsNoReceiver(message) == message = MsgNoReceiver

\* error.message.includes('Extension context invalidated')
IsContextInvalidated(message) == message = MsgContextInvalidated

----------------------------------------------------------------------------
(* SpliceAPIManager.searchSamples (service worker) *)

\* the replies of the content script to searchSampleViaGraphQL that the
\* service worker can receive
SearchReply(success, hasSample, uuid, licensed, error) ==
  [success |-> success, hasSample |-> hasSample, assetUuid |-> uuid,
   licensed |-> licensed, error |-> error]

CsSearchReplies ==
  { Resolved(SearchReply(TRUE, TRUE, "asset-uuid-1", "true", Undef)),
    Resolved(SearchReply(TRUE, TRUE, "asset-uuid-1", "false", Undef)),
    Resolved(SearchReply(TRUE, TRUE, "asset-uuid-1", Undef, Undef)),
    Resolved(SearchReply(TRUE, FALSE, Undef, Undef, Undef)),
    Resolved(SearchReply(FALSE, FALSE, Undef, Undef, "Unknown action")) }

\* chrome.tabs.query / chrome.tabs.create: a Splice tab exists, one is created,
\* or the tabs API throws
TabCases == {"existing", "created"}

MsgTabsFailed == "Tabs cannot be created right now."

\* the candidate built from response.sample
Candidate(query, sample) ==
  [id |-> sample.assetUuid, name |-> query, inLibrary |-> (sample.licensed = "true")]

\* the earlier revision: it needs an open Splice tab (the active one, else
\* the first one), and every failure is thrown to the outer catch, which
\* returns error.message
MsgNoSpliceTab == "No Splice.com tab found for search"

searchSamplesEarlier(query, active, tabs, reply) ==
  IF tabs = "throws"
  THEN Failure(MsgTabsFailed)
  ELSE IF ~active /\ tabs = "none"
  THEN Failure(MsgNoSpliceTab)
  ELSE IF reply.kind = "throw"
  THEN Failure(reply.val.error)
  ELSE IF reply.kind = "value" /\ reply.val.success
  THEN Value(TRUE,
             IF reply.val.hasSample THEN <<Candidate(query, reply.val)>> ELSE <<>>,
             Undef, Undef)
  ELSE Failure(Or(IF reply.kind = "value" THEN reply.val.error ELSE Undef,
                  "Search extraction failed"))

\* searchSamples passing the reply's error on as it is
searchSamplesBareError(query, tabs, reply) ==
  IF tabs = "throws"
  THEN Failure(Or(MsgTabsFailed, "Search failed. Please try again."))
  ELSE IF reply.kind = "throw"
  THEN IF IsNoReceiver(reply.val.error)
       THEN Failure("Please refresh the Splice.com page and try again.")
       ELSE Failure(Or(reply.val.error, "Search failed"))
  ELSE IF reply.kind = "value" /\ reply.val.success
  THEN Value(TRUE,
             IF reply.val.hasSample THEN <<Candidate(query, reply.val)>> ELSE <<>>,
             Undef, Undef)
  ELSE Failure(IF reply.kind = "value" THEN reply.val.error ELSE Undef)

searchSamples(query, tabs, reply) ==
  IF tabs = "throws"
  THEN Failure(Or(MsgTabsFailed, "Search failed. Please try again."))
  ELSE IF reply.kind = "throw"
  THEN IF IsNoReceiver(reply.val.error)
       THEN Failure("Please refresh the Splice.com page and try again.")
       ELSE Failure(Or(reply.val.error, "Search failed"))
  ELSE IF reply.kind = "value" /\ reply.val.success
  THEN Value(TRUE,
             IF reply.val.hasSample THEN <<Candidate(query, reply.val)>> ELSE <<>>,
             Undef, Undef)
  ELSE Failure(Or(IF reply.kind = "value" THEN reply.val.error ELSE Undef,
                  "Sample not found"))

----------------------------------------------------------------------------
(* SpliceContentScript: getSampleDetails, generateLicenseViaGraphQL,          *)
(* executeInPageContext and the generateLicense case of the message listener *)

\* the answer of the SamplesSearch query sent by getSampleDetails
Lookup(kind, uuid, catalog) == [kind |-> kind, uuid |-> uuid, catalog_uuid |-> catalog]

Lookups ==
  { Lookup("item", "asset-uuid-1", Undef),
    Lookup("item", "asset-uuid-1", "catalog-uuid-1"),
    Lookup("empty", Undef, Undef) }

\* sample.catalog_uuid ? sample.catalog_uuid : sample.uuid
objectUuid(lookup) == Or(lookup.catalog_uuid, lookup.uuid)

getSampleDetailsError(lookup) ==
  CASE lookup.kind = "http_error" -> "SamplesSearch request failed: 500"
    [] lookup.kind = "empty" -> "Sample not found in search results"
    [] OTHER -> Undef

\* !sampleId || sampleId === 'samples' || sampleId === 'sample' || sampleId.length < 5
InvalidSampleId(sampleId) ==
  ~Truthy(sampleId) \/ sampleId = "samples" \/ sampleId = "sample" \/ Len(sampleId) < 5

\* getAuthToken: the page script's token, or null after the 5 s timeout
Tokens == {"eyJ-access-token", Null}

\* the answer of the GenerateCertifiedLicense mutation; marks are the status
\* words found in the joined GraphQL error messages
Remote(kind, marks, url) == [kind |-> kind, marks |-> marks, downloadUrl |-> url]

Remotes ==
  { Remote("data", {}, "https://splice.com/license-1.pdf"),
    Remote("data", {}, "https://splice.com/license-2.pdf"),
    Remote("errors", {"403"}, Undef) }

\* `Request failed: ${response.status} ${response.statusText}`; the marks of
\* an answer that is not ok are its status and status text
RequestFailed(marks) ==
  IF "401" \in marks THEN "Request failed: 401 Unauthorized"
  ELSE IF "403" \in marks THEN "Request failed: 403 Forbidden"
  ELSE IF "404" \in marks THEN "Request failed: 404 Not Found"
  ELSE "Request failed: 500 Internal Server Error"

\* the part of executeInPageContext after the fetch
mapRemote(remote) ==
  CASE remote.kind = "network_error" -> Failure("Failed to fetch")
    [] remote.kind = "http_error" -> Failure(RequestFailed(remote.marks))
    [] remote.kind = "errors" ->
         IF "403" \in remote.marks \/ "Forbidden" \in remote.marks
         THEN Failure("Sample not in your library. Add this sample to your library before generating a license.")
         ELSE IF "401" \in remote.marks \/ "Unauthorized" \in remote.marks
         THEN Failure("Authentication expired. Please refresh the Splice.com page and try again.")
         ELSE IF "404" \in remote.marks \/ "Not Found" \in remote.marks
         THEN Failure("Sample not found on Splice. Please check the sample name.")
         ELSE Failure("Failed to generate license: Internal error")
    [] remote.kind = "data" -> Value(TRUE, <<>>, Undef, remote.downloadUrl)
    [] OTHER -> Failure("Invalid response from Splice. Please try again.")

\* if (message.sampleName)
NameGiven(msg) == msg.sampleName # <<>>

\* the listener using the id of the message in every case
csSampleIdFromMessage(msg, lookup) == msg.sampleId

\* the asset identifier the listener hands to generateLicenseViaGraphQL
csSampleId(msg, lookup) ==
  IF NameGiven(msg) THEN objectUuid(lookup) ELSE msg.sampleId

\* executeInPageContext posting the mutation again after a failed attempt
csFetchesRetry(msg, lookup, token) ==
  IF NameGiven(msg) /\ lookup.kind # "item" THEN 0
  ELSE IF ~Truthy(token) THEN 0
  ELSE 2

\* how many times executeInPageContext posts the mutation
csFetches(msg, lookup, token) ==
  IF NameGiven(msg) /\ lookup.kind # "item" THEN 0
  ELSE IF InvalidSampleId(csSampleId(msg, lookup)) THEN 0
  ELSE IF ~Truthy(token) THEN 0
  ELSE 1

\* the variables of the mutation
Mutation(msg, lookup) ==
  [pos |-> msg.pos, assetUuid |-> csSampleId(msg, lookup),
   fullLegalName |-> msg.legalName, artistName |-> msg.artistName]

\* what the listener passes to sendResponse
csGenerateLicense(msg, lookup, token, remote) ==
  IF NameGiven(msg) /\ lookup.kind # "item"
  THEN Failure(getSampleDetailsError(lookup))
  ELSE IF InvalidSampleId(csSampleId(msg, lookup))
  THEN Failure("Invalid sample ID. Expected a valid sample identifier.")
  ELSE IF ~Truthy(token)
  THEN Failure("Unable to retrieve authentication token. Please make sure you are logged in to Splice.com")
  ELSE mapRemote(remote)

----------------------------------------------------------------------------
(* SpliceAPIManager.generateLicense (service worker) *)

\* the active tab is a Splice tab, another Splice tab is open, or none is
LicenseTabCases == {"active", "other", "none"}

\* how many times the request is passed on to a content script
swForwards(tabs) == IF tabs = "none" THEN 0 ELSE 1

\* the result returned to the popup when no tab is found
swNoTab == Failure("No Splice.com tab found for license generation")

\* the result made of the content script's reply
swLicenseResult(reply) ==
  IF reply.kind = "throw"
  THEN IF IsNoReceiver(reply.val.error)
       THEN Failure("Please refresh the Splice.com page and try again.")
       ELSE Failure(Or(reply.val.error, "License generation failed"))
  ELSE IF reply.kind = "value" /\ reply.val.success
  THEN Value(TRUE, <<>>, Undef, reply.val.downloadUrl)
  ELSE Failure(Or(IF reply.kind = "value" THEN reply.val.error ELSE Undef,
                  "License generation failed"))

----------------------------------------------------------------------------
(* PopupManager.processSamplesBatch (popup/popup.js): one name's steps *)

ErrNotFound == "Sample not found on Splice. Please verify the sample name is correct."
ErrNoMatch == "No suitable match found"
ErrNotInLibrary == "Sample not in your library. Please add this sample to your Splice library before generating a license."
ErrNotConfigured == "License information not configured. Please set up your license details in the extension options."
ErrDecode == "Failed to decode license information"
ErrGenerate == "Failed to generate license"
ErrReloaded == "Extension was reloaded. Please close and reopen this popup."
ErrCannotCommunicate == "Cannot communicate with extension. Please try again."

\* one element of the results array
Failed(sample, error) ==
  [sample |-> sample, success |-> FALSE, error |-> error,
   sampleId |-> Undef, downloadUrl |-> Undef]

\* the success result leaving downloadUrl out
SucceededWithoutUrl(sample, match, url) ==
  [sample |-> sample, success |-> TRUE, error |-> Undef,
   sampleId |-> match.id, downloadUrl |-> Undef]

Succeeded(sample, match, url) ==
  [sample |-> sample, success |-> TRUE, error |-> Undef,
   sampleId |-> match.id, downloadUrl |-> url]

\* results.unshift(...) in place of results.push(...)
pushFront(rs, r) == <<r>> \o rs

\* results.push(...)
push(rs, r) == Append(rs, r)

\* the error safeSendMessage throws for a failed chrome.runtime.sendMessage
safeSendMessageError(message) ==
  IF IsContextInvalidated(message) THEN ErrReloaded
  ELSE IF IsNoReceiver(message) THEN ErrCannotCommunicate
  ELSE message

\* ExtensionUtils.formatError
formatError(message) == Or(message, "An unknown error occurred")

\* what safeSendMessage can do at the moment of sending: deliver the message,
\* or throw because the extension context is gone or nothing listens
SendOutcomes == {"sent", MsgContextInvalidated}

\* the test on the search result looking at success only
NoCandidatesOnFailureOnly(v) == ~v.success

\* !searchResult.success || searchResult.results.length === 0
NoCandidates(v) == ~v.success \/ Len(v.results) = 0

\* the library check left out
NotOwnedSkipped(match) == FALSE

\* bestMatch.inLibrary === false
NotOwned(match) == match.inLibrary = FALSE

\* the check for a missing licenseInfo left out
IdentityMissingNever(stored) == FALSE

\* !licenseInfo
IdentityMissing(stored) == ~stored.present

\* the decoding not guarded by try/catch
DecodeFailsNever(stored) == FALSE

\* atob(licenseInfo) or JSON.parse(decoded) throws
DecodeFails(stored) == atobThrows(stored) \/ parseThrows(stored)

\* the catch block leaving the loop
pcAfterCatchAbort == "done"

\* the message sent without awaiting its answer
pcAfterSendNoAwait(action) == "delay"

\* the progress count taken from the loop variable as it is
progressCurrentZeroBased(i) == i - 1

\* updateProgress(i + 1, ...): idx is the position of the name, counted from 1
progressCurrent(i) == i

\* where the loop goes after the catch block (the pause) and after a continue
pcAfterCatch == "delay"
pcAfterContinue == "loop"
\* where the loop waits after a message has been sent
pcAfterSend(action) == IF action = "searchSamples" THEN "awaitSearch" ELSE "awaitLicense"

\* a message of the popup, tagged with the position of its name in the batch
Request(pos, action, query, sampleId, identity) ==
  [pos |-> pos, action |-> action, query |-> query, sampleId |-> sampleId,
   legalName |-> identity.legalName, artistName |-> identity.artistName,
   sampleName |-> IF action = "generateLicense" THEN query ELSE <<>>]

NoIdentity == [legalName |-> Undef, artistName |-> Undef]

\* the decision taken on the awaited search result: a result to push (with or
\* without the pause), or the generateLicense request to send
afterSearch(sample, outcome, stored) ==
  LET v == outcome.val
      m == findBestMatch(sample, v.results)
      Stop(error, next) ==
        [send |-> FALSE, result |-> Failed(sample, error), next |-> next,
         match |-> NoMatch, selected |-> FALSE, identityRead |-> FALSE]
  IN  IF outcome.kind = "throw"
      THEN Stop(formatError(safeSendMessageError(v.error)), pcAfterCatch)
      ELSE IF outcome.kind = "undefined"
      THEN Stop(formatError(MsgUndefinedSuccess), pcAfterCatch)
      ELSE IF NoCandidates(v)
      THEN Stop(Or(v.error, ErrNotFound), pcAfterContinue)
      ELSE IF m = NoMatch
      THEN Stop(ErrNoMatch, pcAfterContinue)
      ELSE IF NotOwned(m)
      THEN [Stop(ErrNotInLibrary, pcAfterContinue) EXCEPT !.match = m, !.selected = TRUE]
      ELSE IF IdentityMissing(stored)
      THEN [Stop(ErrNotConfigured, pcAfterContinue)
              EXCEPT !.match = m, !.selected = TRUE, !.identityRead = TRUE]
      ELSE IF DecodeFails(stored)
      THEN [Stop(ErrDecode, pcAfterContinue)
              EXCEPT !.match = m, !.selected = TRUE, !.identityRead = TRUE]
      ELSE [send |-> TRUE, result |-> Failed(sample, Undef), next |-> "awaitLicense",
            match |-> m, selected |-> TRUE, identityRead |-> TRUE]

\* the result pushed for the awaited generateLicense result
afterLicense(sample, match, outcome) ==
  LET v == outcome.val
  IN  IF outcome.kind = "throw"
      THEN [result |-> Failed(sample, formatError(safeSendMessageError(v.error))),
            next |-> pcAfterCatch]
      ELSE IF outcome.kind = "undefined"
      THEN [result |-> Failed(sample, formatError(MsgUndefinedSuccess)),
            next |-> pcAfterCatch]
      ELSE IF ~v.success
      THEN [result |-> Failed(sample, Or(v.error, ErrGenerate)), next |-> pcAfterContinue]
      ELSE [result |-> Succeeded(sample, match, v.downloadUrl), next |-> "delay"]

----------------------------------------------------------------------------
(* The batch run as a state machine *)

\* the names and raw lines typed into the popup
Names == {<<"a">>, <<"B">>}
RawLines == {<<"a">>, <<" ", "B", " ">>, <<>>}
Inputs == SeqUpTo(RawLines, MaxLines) \ {<<>>}

Response(q, outcome) == [pos |-> q.pos, action |-> q.action, outcome |-> outcome]

\* n copies of e appended to a log
AppendTimes(log, e, n) == log \o [k \in 1..n |-> e]

InitBatch ==
  /\ isProcessing = FALSE
  /\ samples = <<>>
  /\ results = <<>>
  /\ idx = 1
  /\ pc = "idle"
  /\ bestMatch = NoMatch
  /\ pending = {}
  /\ responses = {}
  /\ csPending = {}
  /\ searchLog = <<>>
  /\ progressLog = <<>>
  /\ selectLog = <<>>
  /\ licenseLog = <<>>
  /\ forwardLog = <<>>
  /\ mutationLog = <<>>
  /\ absentAllRun = TRUE
  /\ licenseInfo = Absent

\* PopupManager.processSamples up to the call of processSamplesBatch
ProcessSamplesStep(lines) ==
  LET validation == validateSampleInput(lines)
  IN  /\ ~isProcessing
      /\ validation.isValid
      /\ isProcessing' = TRUE
      /\ samples' = validation.samples
      /\ results' = <<>>
      /\ idx' = 1
      /\ pc' = "loop"
      /\ bestMatch' = NoMatch
      /\ searchLog' = <<>>
      /\ progressLog' = <<>>
      /\ selectLog' = <<>>
      /\ licenseLog' = <<>>
      /\ forwardLog' = <<>>
      /\ mutationLog' = <<>>
      /\ absentAllRun' = ~licenseInfo.present
      /\ UNCHANGED <<netVars, licenseInfo>>

ProcessSamples(lines) == ProcessSamplesStep(lines) /\ UNCHANGED offBatch

\* the loop head while a name is left: progress is shown and the search
\* message for samples[idx] is handed to safeSendMessage
BatchLoop(send) ==
  LET q == Request(idx, "searchSamples", samples[idx], Undef, NoIdentity)
  IN  /\ pc = "loop"
      /\ idx <= Len(samples)
      /\ progressLog' = Append(progressLog,
                                [current |-> progressCurrent(idx), total |-> Len(samples),
                                 name |-> samples[idx], recorded |-> Len(results)])
      /\ searchLog' = Append(searchLog, [pos |-> idx, sent |-> send = "sent"])
      /\ IF send = "sent"
         THEN /\ pending' = pending \cup {q}
              /\ pc' = pcAfterSend("searchSamples")
              /\ UNCHANGED results
         ELSE /\ results' = push(results,
                    Failed(samples[idx], formatError(safeSendMessageError(send))))
              /\ pc' = pcAfterCatch
              /\ UNCHANGED pending
      /\ UNCHANGED <<offBatch, isProcessing, samples, idx, bestMatch, responses,
                     csPending, selectLog, licenseLog, forwardLog, mutationLog,
                     absentAllRun, licenseInfo>>

\* the loop head when no name is left: processSamplesBatch returns results and
\* processSamples shows them and resets isProcessing
BatchReturn ==
  /\ pc = "loop"
  /\ idx > Len(samples)
  /\ pc' = "done"
  /\ isProcessing' = FALSE
  /\ UNCHANGED <<offBatch, samples, results, idx, bestMatch, netVars, logVars,
                 licenseInfo>>

\* the popup resumes with the search result: it pushes a result or reads the
\* stored identity and hands the generateLicense message to safeSendMessage
PopupSearchReply(r, send) ==
  LET sample == samples[idx]
      d == afterSearch(sample, r.outcome, licenseInfo)
      q == Request(idx, "generateLicense", sample, d.match.id, decoded(licenseInfo))
      thrown == Failed(sample, formatError(safeSendMessageError(send)))
  IN  /\ pc = "awaitSearch"
      /\ r \in responses /\ r.pos = idx /\ r.action = "searchSamples"
      /\ responses' = responses \ {r}
      /\ bestMatch' = d.match
      /\ selectLog' = IF d.selected
                      THEN Append(selectLog, [pos |-> idx, match |-> d.match,
                                              identityRead |-> d.identityRead,
                                              stored |-> IF d.identityRead
                                                         THEN licenseInfo ELSE Absent])
                      ELSE selectLog
      /\ IF d.send
         THEN /\ licenseLog' = Append(licenseLog, [pos |-> idx, sent |-> send = "sent",
                                                   sampleId |-> q.sampleId])
              /\ IF send = "sent"
                 THEN /\ pending' = pending \cup {q}
                      /\ pc' = pcAfterSend("generateLicense")
                      /\ UNCHANGED <<results, idx>>
                 ELSE /\ results' = push(results, thrown)
                      /\ pc' = pcAfterCatch
                      /\ UNCHANGED <<pending, idx>>
         ELSE /\ send = "sent"
              /\ results' = push(results, d.result)
              /\ pc' = d.next
              /\ idx' = IF d.next = "loop" THEN idx + 1 ELSE idx
              /\ UNCHANGED <<pending, licenseLog>>
      /\ UNCHANGED <<offBatch, isProcessing, samples, csPending, searchLog, progressLog,
                     forwardLog,
                     mutationLog, absentAllRun, licenseInfo>>

\* the popup resumes with the generateLicense result and pushes a result
PopupLicenseReply(r) ==
  LET d == afterLicense(samples[idx], bestMatch, r.outcome)
  IN  /\ pc = "awaitLicense"
      /\ r \in responses /\ r.pos = idx /\ r.action = "generateLicense"
      /\ responses' = responses \ {r}
      /\ results' = push(results, d.result)
      /\ pc' = d.next
      /\ idx' = IF d.next = "loop" THEN idx + 1 ELSE idx
      /\ UNCHANGED <<offBatch, isProcessing, samples, bestMatch, pending, csPending, logVars,
                     licenseInfo>>

\* await new Promise(resolve => setTimeout(resolve, 1000)) and i++
Delay ==
  /\ pc = "delay"
  /\ idx' = idx + 1
  /\ pc' = "loop"
  /\ UNCHANGED <<offBatch, isProcessing, samples, results, bestMatch, netVars, logVars,
                 licenseInfo>>

\* the service worker's listener runs searchSamples for a delivered message and
\* answers with its return value
SwSearchSamples(q, tabs, reply) ==
  /\ q \in pending /\ q.action = "searchSamples"
  /\ pending' = pending \ {q}
  /\ responses' = responses \cup {Response(q, Resolved(searchSamples(q.query, tabs, reply)))}
  /\ UNCHANGED <<offBatch, popupVars, csPending, logVars, licenseInfo>>

\* the service worker's listener runs generateLicense: with no Splice tab it
\* answers at once, otherwise it passes the request on to a content script
SwGenerateLicense(q, tabs) ==
  /\ q \in pending /\ q.action = "generateLicense"
  /\ pending' = pending \ {q}
  /\ forwardLog' = AppendTimes(forwardLog, [pos |-> q.pos], swForwards(tabs))
  /\ IF swForwards(tabs) = 0
     THEN /\ responses' = responses \cup {Response(q, Resolved(swNoTab))}
          /\ UNCHANGED csPending
     ELSE /\ csPending' = csPending \cup {q}
          /\ UNCHANGED responses
  /\ UNCHANGED <<offBatch, popupVars, searchLog, progressLog, selectLog, licenseLog,
                 mutationLog,
                 absentAllRun, licenseInfo>>

\* how the message to the content script ends: its listener answers, no
\* listener exists, or the listener runs and the port closes before its answer
Channels == {"answered", "no_receiver"}

\* the content script's generateLicense case runs and the service worker turns
\* its reply into the result for the popup
CsGenerateLicenseStep(c, channel, lookup, token, remote) ==
  LET ran == channel # "no_receiver"
      reply == CASE channel = "answered" ->
                      Resolved(csGenerateLicense(c, lookup, token, remote))
                 [] channel = "no_receiver" -> Rejected(MsgNoReceiver)
                 [] OTHER -> Rejected(MsgPortClosed)
  IN  /\ c \in csPending
      /\ csPending' = csPending \ {c}
      /\ mutationLog' = AppendTimes(mutationLog,
                                    [m |-> Mutation(c, lookup), lookup |-> lookup,
                                     remote |-> remote],
                                    IF ran THEN csFetches(c, lookup, token) ELSE 0)
      /\ responses' = responses \cup {Response(c, Resolved(swLicenseResult(reply)))}
      /\ UNCHANGED <<popupVars, pending, searchLog, progressLog, selectLog, licenseLog,
                     forwardLog,
                     absentAllRun, licenseInfo>>

CsGenerateLicense(c, channel, lookup, token, remote) ==
  CsGenerateLicenseStep(c, channel, lookup, token, remote) /\ UNCHANGED offBatch

\* the service worker is stopped, or the port closes, while a message of the
\* popup waits: the awaited sendMessage rejects or resolves with undefined
RuntimeDrops(q, outcome) ==
  /\ q \in pending
  /\ pending' = pending \ {q}
  /\ responses' = responses \cup {Response(q, outcome)}
  /\ UNCHANGED <<offBatch, popupVars, csPending, logVars, licenseInfo>>

----------------------------------------------------------------------------
(* The options page (OptionsManager) and LicenseInfoManager on the store *)

SetStore(v) ==
  /\ licenseInfo' = v
  /\ absentAllRun' = (absentAllRun /\ ~v.present)
  /\ UNCHANGED <<offBatch, popupVars, netVars, searchLog, progressLog, selectLog,
                 licenseLog, forwardLog,
                 mutationLog>>

\* OptionsManager.saveLicenseInfo and LicenseInfoManager.saveLicenseInfo
SaveLicenseInfo(legalName, artistName) ==
  LET licenseData == [legalName |-> legalName, artistName |-> artistName]
  IN  /\ Truthy(legalName) /\ Truthy(artistName)
      /\ validate(licenseData)
      /\ SetStore(encrypt(licenseData))

\* LicenseInfoManager.clearLicenseInfo and OptionsManager.clearAllData
ClearLicenseInfo ==
  /\ licenseInfo.present
  /\ SetStore(Absent)

\* OptionsManager.importData: any truthy licenseInfo of the file is stored
ImportData(v) ==
  /\ v.present
  /\ v # licenseInfo
  /\ SetStore(v)

----------------------------------------------------------------------------

Next ==
  \/ \E lines \in Inputs : ProcessSamples(lines)
  \/ \E send \in SendOutcomes : BatchLoop(send)
  \/ BatchReturn
  \/ \E r \in responses, send \in SendOutcomes : PopupSearchReply(r, send)
  \/ \E r \in responses : PopupLicenseReply(r)
  \/ Delay
  \/ \E q \in pending, tabs \in TabCases, reply \in CsSearchReplies :
       SwSearchSamples(q, tabs, reply)
  \/ \E q \in pending, tabs \in LicenseTabCases : SwGenerateLicense(q, tabs)
  \/ \E c \in csPending, channel \in Channels, lookup \in Lookups,
        token \in Tokens, remote \in Remotes :
       CsGenerateLicense(c, channel, lookup, token, remote)
  \/ \E q \in pending, outcome \in {ResolvedUndefined} :
       RuntimeDrops(q, outcome)
  \/ \E legalName \in FormValues, artistName \in FormValues :
       SaveLicenseInfo(legalName, artistName)
  \/ ClearLicenseInfo
  \/ \E v \in ImportValues : ImportData(v)

InitMatchIdle ==
  /\ mQuery = <<>>
  /\ mCands = <<>>
  /\ mResult = NoMatch
  /\ mDone = FALSE

NotChecked ==
  [checked |-> FALSE, read |-> FALSE, conclusive |-> FALSE, loggedIn |-> FALSE,
   reason |-> Undef]

InitCookiesIdle ==
  /\ cookieJar = <<>>
  /\ nowSec = 0
  /\ cookieAuth = NotChecked

\* new SpliceSessionManager(): no cache; no call of checkUserLoggedIn yet
NoCall == [entry |-> FALSE, age |-> 0, afterChange |-> FALSE, fromCache |-> FALSE]
NoAuth ==
  [loggedIn |-> FALSE, method |-> Undef, error |-> Undef, user |-> Undef, timestamp |-> 0]
NoReturn ==
  [returned |-> FALSE, value |-> NoAuth, fromCache |-> FALSE, cookie |-> NotChecked,
   domCase |-> "none", calls |-> <<>>, cached |-> FALSE]

\* Date.now() when the service worker starts, in milliseconds
StartMs == 1000

InitSessionIdle ==
  /\ sessionCache = <<>>
  /\ sessionTimestamp = <<>>
  /\ clockMs = StartMs
  /\ ticks = 0
  /\ authPc = "idle"
  /\ authCookie = NotChecked
  /\ authCall = NoCall
  /\ authReturn = NoReturn
  /\ changedSince = FALSE

\* a popup just opened: #mainInterface is not displayed until
\* showAuthenticatedState sets its display, and no check has been made
NoGate == [mainInterface |-> FALSE, verdict |-> "none", fresh |-> FALSE]
NoRun == [started |-> FALSE, checked |-> FALSE, verdict |-> "none"]

InitGate ==
  /\ gate = NoGate
  /\ runGate = NoRun

NotValidated == [isValid |-> FALSE, samples |-> <<>>]

InitInputIdle ==
  /\ vLines = << <<>> >>
  /\ vValidation = NotValidated
  /\ vDone = FALSE

InitRemoteIdle ==
  /\ rRemote = Remote("data", {}, Undef)
  /\ rResult = Failure(Undef)
  /\ rDone = FALSE

\* no getAuthToken promise is pending
NoWait == [state |-> "none", pos |-> 0, token |-> Null]

InitToken ==
  /\ tokenWait = NoWait
  /\ tokenLog = <<>>

InitSearchIdle ==
  /\ sQuery = <<>>
  /\ sActive = FALSE
  /\ sTabs = "existing"
  /\ sReply = ResolvedUndefined
  /\ sResult = Failure(Undef)
  /\ sEarlier = Failure(Undef)
  /\ sDone = TRUE

\* what restoreState reports before any popup has opened
NotRestored ==
  [done |-> FALSE, had |-> FALSE, age |-> 0, removed |-> FALSE, applied |-> FALSE,
   saved |-> <<>>, input |-> "", results |-> <<>>]

\* nothing saved yet, and no popup open
InitState ==
  /\ popupState = <<>>
  /\ popupOpen = FALSE
  /\ sampleInput = ""
  /\ currentResults = <<>>
  /\ restored = NotRestored
  /\ cleared = FALSE

InitTwiceIdle ==
  /\ dStrategy = "graphql"
  /\ dReply = ResolvedUndefined
  /\ dPage = <<>>
  /\ dCalls = 2
  /\ dFirst = {}
  /\ dSecond = {}

\* no token request, no message to the content script, none to the service
\* worker
InitHandlersIdle ==
  /\ pageStorage = <<>>
  /\ pageAnswer = <<>>
  /\ csMessage = [action |-> Undef, name |-> <<>>]
  /\ csAnswer = <<>>
  /\ swPending = {}
  /\ swReplies = <<>>
  /\ swNext = 1
  /\ tokenRequests = <<>>
  /\ windowMessages = {}

InitLaterIdle ==
  /\ InitSessionIdle /\ InitGate /\ InitInputIdle /\ InitRemoteIdle /\ InitToken
  /\ InitSearchIdle /\ InitState /\ InitTwiceIdle /\ InitHandlersIdle

Init == InitBatch /\ InitMatchIdle /\ InitCookiesIdle /\ InitLaterIdle

Spec == Init /\ [][Next]_vars

----------------------------------------------------------------------------
(* findBestMatch on drawn inputs *)

MatchChars == {"a", "A"}
MatchNames == SeqUpTo(MatchChars, MaxNameLen) \ {<<>>}

\* the names a search result can carry: a name, the empty string, or none
CandidateNames == MatchNames \cup {<<>>, NoName}

CandidateLists ==
  { [k \in 1..Len(ns) |-> [id |-> ToString(k), name |-> ns[k], inLibrary |-> TRUE]] :
      ns \in SeqUpTo(CandidateNames, MaxCands) }

InitMatch ==
  /\ InitBatch
  /\ InitCookiesIdle
  /\ InitLaterIdle
  /\ mQuery \in MatchNames
  /\ mCands \in CandidateLists
  /\ mResult = NoMatch
  /\ mDone = FALSE

FindBestMatch ==
  /\ ~mDone
  /\ mResult' = findBestMatch(mQuery, mCands)
  /\ mDone' = TRUE
  /\ UNCHANGED <<mQuery, mCands, batchVars, cookieVars, laterVars>>

NextMatch == FindBestMatch

SpecMatch == InitMatch /\ [][NextMatch]_vars

----------------------------------------------------------------------------
(* SpliceSessionManager.checkAuthViaCookies (service worker) *)

\* expirationDate of a session cookie, which has none
NoExpiry == -1

Cookie(name, domain, expirationDate) ==
  [name |-> name, domain |-> domain, expirationDate |-> expirationDate]

CookieNames == {"auth0", "_splice_token_prod", "_ga"}
CookieDomains == {".splice.com", "auth.splice.com"}
Cookies ==
  { Cookie(n, d, e) : n \in CookieNames, d \in CookieDomains,
                      e \in (0..MaxTime) \cup {NoExpiry} }

\* c.name + c.domain, the key of the deduplicating Map
CookieKey(c) == <<c.name, c.domain>>

\* the cookie stores: no two cookies with one name and domain
CookieJars ==
  { jar \in SeqUpTo(Cookies, MaxCookies) :
      \A i, j \in 1..Len(jar) : i # j => CookieKey(jar[i]) # CookieKey(jar[j]) }

\* chrome.cookies.getAll({domain}): the cookies whose domain is the given one
\* or a subdomain of it
DomainMatches(domain, filter) ==
  IF filter = "auth.splice.com" THEN domain = "auth.splice.com" ELSE TRUE

getAll(jar, filter) ==
  LET Keep(c) == DomainMatches(c.domain, filter) IN SelectSeq(jar, Keep)

\* Array.from(new Map(allCookies.map(c => [c.name + c.domain, c])).values()):
\* one cookie per key, at the place of the key's first occurrence, with the
\* value of its last occurrence
uniqueCookies(all) ==
  LET FirstAt(k) == \A j \in 1..(k - 1) : CookieKey(all[j]) # CookieKey(all[k])
      LastOf(k) == CHOOSE j \in 1..Len(all) :
                     /\ CookieKey(all[j]) = CookieKey(all[k])
                     /\ \A i \in (j + 1)..Len(all) : CookieKey(all[i]) # CookieKey(all[k])
      firsts == {k \in 1..Len(all) : FirstAt(k)}
      Rank(k) == Cardinality({j \in firsts : j < k})
  IN  [r \in 1..Cardinality(firsts) |->
         all[LastOf(CHOOSE k \in firsts : Rank(k) = r - 1)]]

\* expiry && expiry < now
isExpired(cookie, now) ==
  cookie.expirationDate # NoExpiry /\ cookie.expirationDate # 0
    /\ cookie.expirationDate < now

Verdict(conclusive, loggedIn, reason) ==
  [checked |-> TRUE, read |-> TRUE, conclusive |-> conclusive, loggedIn |-> loggedIn,
   reason |-> reason]

\* return null
Inconclusive == Verdict(FALSE, FALSE, Undef)

\* the session token tested before the expiry of the auth0 cookie
checkAuthViaCookiesTokenFirst(jar, now) ==
  LET unique == uniqueCookies(getAll(jar, "splice.com") \o getAll(jar, ".splice.com")
                                \o getAll(jar, "auth.splice.com"))
      IsAuth0(c) == c.name = "auth0"
      IsToken(c) == c.name = "_splice_token_prod"
      auth0 == FirstIndex(unique, IsAuth0)
      hasAuth0 == auth0 # 0
      hasSpliceToken == FirstIndex(unique, IsToken) # 0
  IN  IF Len(unique) = 0 THEN Verdict(TRUE, FALSE, "no_cookies")
      ELSE IF hasSpliceToken THEN Verdict(TRUE, TRUE, Undef)
      ELSE IF hasAuth0 /\ isExpired(unique[auth0], now)
      THEN Verdict(TRUE, FALSE, "auth0_expired")
      ELSE IF hasAuth0 /\ ~hasSpliceToken THEN Verdict(TRUE, FALSE, "no_splice_token")
      ELSE Inconclusive

checkAuthViaCookies(jar, now) ==
  LET unique == uniqueCookies(getAll(jar, "splice.com") \o getAll(jar, ".splice.com")
                                \o getAll(jar, "auth.splice.com"))
      IsAuth0(c) == c.name = "auth0"
      IsToken(c) == c.name = "_splice_token_prod"
      auth0 == FirstIndex(unique, IsAuth0)
      hasAuth0 == auth0 # 0
      hasSpliceToken == FirstIndex(unique, IsToken) # 0
  IN  IF Len(unique) = 0 THEN Verdict(TRUE, FALSE, "no_cookies")
      ELSE IF hasAuth0 /\ isExpired(unique[auth0], now)
      THEN Verdict(TRUE, FALSE, "auth0_expired")
      ELSE IF hasSpliceToken THEN Verdict(TRUE, TRUE, Undef)
      ELSE IF hasAuth0 /\ ~hasSpliceToken THEN Verdict(TRUE, FALSE, "no_splice_token")
      ELSE Inconclusive

InitCookies ==
  /\ InitBatch
  /\ InitMatchIdle
  /\ InitLaterIdle
  /\ cookieJar \in CookieJars
  /\ nowSec \in 0..MaxTime
  /\ cookieAuth = NotChecked

\* one call of checkAuthViaCookies; chrome.cookies.getAll may throw, and the
\* catch block returns null
CheckAuthViaCookies(throws) ==
  /\ ~cookieAuth.checked
  /\ cookieAuth' = IF throws THEN [Inconclusive EXCEPT !.read = FALSE]
                   ELSE checkAuthViaCookies(cookieJar, nowSec)
  /\ UNCHANGED <<cookieJar, nowSec, batchVars, matchVars, laterVars>>

NextCookies == \E throws \in BOOLEAN : CheckAuthViaCookies(throws)

SpecCookies == InitCookies /\ [][NextCookies]_vars

----------------------------------------------------------------------------
(* SpliceSessionManager.checkUserLoggedIn and the session cache *)

\* this.cacheTimeout = 30 * 1000
cacheTimeout == 30000

\* the cache interval taken as inclusive
isSessionCacheValidInclusive(timestamp, now) ==
  IF timestamp = <<>> \/ timestamp[1] = 0 THEN FALSE
  ELSE (now - timestamp[1]) <= cacheTimeout

\* isSessionCacheValid(); the timestamp is <<>> for null
isSessionCacheValid(timestamp, now) ==
  IF timestamp = <<>> \/ timestamp[1] = 0 THEN FALSE
  ELSE (now - timestamp[1]) < cacheTimeout

\* Date.now() / 1000 as checkAuthViaCookies compares it with an expirationDate
\* in whole seconds: expiry < ms / 1000 exactly when expiry < ceil(ms / 1000)
NowSeconds(ms) == (ms + 999) \div 1000

Auth(loggedIn, method, error, user, timestamp) ==
  [loggedIn |-> loggedIn, method |-> method, error |-> error, user |-> user,
   timestamp |-> timestamp]

ErrNotOnSplice == "Not on Splice.com"
ErrNotLoggedIn == "Not logged in to Splice"
ErrNoCommunication == "Cannot communicate with Splice.com"
ErrTabsQuery == "tabs.query failed"

\* the cookies of the session machine and the stores they can form
SessionCookies ==
  { Cookie("_splice_token_prod", ".splice.com", NoExpiry),
    Cookie("auth0", "auth.splice.com", 2),
    Cookie("_ga", ".splice.com", NoExpiry) }

\* chrome.tabs.query: the active tab is a Splice tab, another tab is, none is,
\* or the query fails
AuthTabCases == {"active", "other", "none", "throws"}

\* the answer to chrome.tabs.sendMessage(..., {action: 'getSessionData'})
DomReply(kind, loggedIn, user, message) ==
  [kind |-> kind, loggedIn |-> loggedIn, user |-> user, message |-> message]

DomReplies ==
  { DomReply("value", TRUE, "jane", Undef),
    DomReply("value", TRUE, Undef, Undef),
    DomReply("value", FALSE, Undef, Undef),
    DomReply("undefined", FALSE, Undef, Undef),
    DomReply("rejected", FALSE, Undef, MsgNoReceiver),
    DomReply("rejected", FALSE, Undef, MsgContextInvalidated),
    DomReply("rejected", FALSE, Undef, MsgPortClosed) }

\* chrome.scripting.executeScript followed by the second sendMessage
DomRetries ==
  { DomReply("inject_failed", FALSE, Undef, Undef),
    DomReply("value", TRUE, "jane", Undef),
    DomReply("value", FALSE, Undef, Undef),
    DomReply("rejected", FALSE, Undef, MsgNoReceiver) }

\* response && response.loggedIn
Confirms(reply) == reply.kind = "value" /\ reply.loggedIn

\* response.user || { username: 'Unknown' }
UserOf(reply) == IF Truthy(reply.user) THEN reply.user ELSE "Unknown"

\* whether the catch block injects the content script and asks again
Reinjects(tabs, message) ==
  \/ IsNoReceiver(message)
  \/ tabs = "other" /\ IsContextInvalidated(message)

\* what happened in the DOM step of one call
domCase(tabs, first, retry) ==
  IF tabs = "throws" THEN "query_failed"
  ELSE IF tabs = "none" THEN "no_tab"
  ELSE IF Confirms(first) THEN "confirmed"
  ELSE IF first.kind # "rejected" THEN "denied"
  ELSE IF ~Reinjects(tabs, first.message) THEN "unreachable"
  ELSE IF retry.kind = "inject_failed" THEN "reinject_failed"
  ELSE IF Confirms(retry) THEN "reinject_confirmed"
  ELSE "reinject_unconfirmed"

\* checkUserLoggedIn from chrome.tabs.query on: the value returned and whether
\* it is stored in the cache
domStep(cookie, tabs, first, retry, now) ==
  LET case == domCase(tabs, first, retry)
  IN  IF case = "query_failed"
      THEN [value |-> Auth(FALSE, Undef, ErrTabsQuery, Undef, now), cache |-> FALSE]
      ELSE IF case = "no_tab"
      THEN [value |-> Auth(FALSE, Undef, ErrNotOnSplice, Undef, now), cache |-> FALSE]
      ELSE IF case = "confirmed"
      THEN [value |-> Auth(TRUE, Undef, Undef, UserOf(first), now), cache |-> TRUE]
      ELSE IF case = "denied"
      THEN IF cookie.conclusive /\ cookie.loggedIn
           THEN [value |-> Auth(TRUE, "cookies_override", Undef, Null, now), cache |-> TRUE]
           ELSE [value |-> Auth(FALSE, Undef, ErrNotLoggedIn, Undef, now), cache |-> TRUE]
      ELSE IF case = "reinject_confirmed"
      THEN [value |-> Auth(TRUE, Undef, Undef, UserOf(retry), now), cache |-> TRUE]
      ELSE [value |-> Auth(FALSE, Undef, ErrNoCommunication, Undef, now), cache |-> FALSE]

\* one call of the chrome API made by the DOM step, and the message of the
\* error it threw (Undef when it returned)
ApiCall(api, threw, message) == [api |-> api, threw |-> threw, message |-> message]

SendMessage(reply) == ApiCall("sendMessage", reply.kind = "rejected", reply.message)

ExecuteScript(retry) == ApiCall("executeScript", retry.kind = "inject_failed", Undef)

\* a DOM step that injects and asks once more when the repeated message is
\* rejected like the first
domCallsRetryAgain(tabs, first, retry) ==
  IF tabs \in {"throws", "none"} THEN <<>>
  ELSE IF first.kind # "rejected" \/ ~Reinjects(tabs, first.message)
  THEN <<SendMessage(first)>>
  ELSE IF retry.kind = "inject_failed"
  THEN <<SendMessage(first), ExecuteScript(retry)>>
  ELSE IF retry.kind = "rejected" /\ Reinjects(tabs, retry.message)
  THEN <<SendMessage(first), ExecuteScript(retry), SendMessage(retry),
         ExecuteScript(retry), SendMessage(retry)>>
  ELSE <<SendMessage(first), ExecuteScript(retry), SendMessage(retry)>>

\* the calls of chrome.tabs.sendMessage and chrome.scripting.executeScript
\* that checkUserLoggedIn makes after chrome.tabs.query, in order: the inner
\* try of the catch block holds one executeScript and one sendMessage, and
\* its own catch only logs
domCalls(tabs, first, retry) ==
  IF tabs \in {"throws", "none"} THEN <<>>
  ELSE IF first.kind # "rejected" \/ ~Reinjects(tabs, first.message)
  THEN <<SendMessage(first)>>
  ELSE IF retry.kind = "inject_failed"
  THEN <<SendMessage(first), ExecuteScript(retry)>>
  ELSE <<SendMessage(first), ExecuteScript(retry), SendMessage(retry)>>

\* the cookie verdict never taken as final
cookiesSayLoggedOutNever(verdict) == FALSE

\* cookieAuth && cookieAuth.loggedIn === false
cookiesSayLoggedOut(verdict) == verdict.conclusive /\ ~verdict.loggedIn

\* the cache check at the head of checkUserLoggedIn
CallStart ==
  /\ authPc = "idle"
  /\ LET hit == sessionCache # <<>> /\ isSessionCacheValid(sessionTimestamp, clockMs)
     IN  /\ authCall' = [entry |-> sessionCache # <<>>,
                         age |-> IF sessionTimestamp = <<>> THEN 0
                                 ELSE clockMs - sessionTimestamp[1],
                         afterChange |-> changedSince,
                         fromCache |-> hit]
         /\ IF hit
            THEN /\ authReturn' = [returned |-> TRUE, value |-> sessionCache[1],
                                   fromCache |-> TRUE, cookie |-> NotChecked,
                                   domCase |-> "none", calls |-> <<>>, cached |-> FALSE]
                 /\ authPc' = "idle"
            ELSE /\ authReturn' = NoReturn
                 /\ authPc' = "cookies"
  /\ changedSince' = FALSE
  /\ authCookie' = NotChecked
  /\ UNCHANGED <<sessionCache, sessionTimestamp, clockMs, ticks>>
  /\ UNCHANGED <<batchVars, matchVars, cookieVars, gateVars, pureVars, tokenVars>>

\* await this.checkAuthViaCookies() and the return on a definite logged-out
CookiesRead(throws) ==
  /\ authPc = "cookies"
  /\ LET verdict == IF throws THEN [Inconclusive EXCEPT !.read = FALSE]
                    ELSE checkAuthViaCookies(cookieJar, NowSeconds(clockMs))
         authStatus == Auth(FALSE, "cookies", Undef, Undef, clockMs)
     IN  /\ authCookie' = verdict
         /\ IF cookiesSayLoggedOut(verdict)
            THEN /\ sessionCache' = <<authStatus>>
                 /\ sessionTimestamp' = <<clockMs>>
                 /\ authReturn' = [returned |-> TRUE, value |-> authStatus,
                                   fromCache |-> FALSE, cookie |-> verdict,
                                   domCase |-> "none", calls |-> <<>>, cached |-> TRUE]
                 /\ authPc' = "idle"
            ELSE /\ authPc' = "dom"
                 /\ UNCHANGED <<sessionCache, sessionTimestamp, authReturn>>
  /\ UNCHANGED <<clockMs, ticks, authCall, changedSince>>
  /\ UNCHANGED <<batchVars, matchVars, cookieVars, gateVars, pureVars, tokenVars>>

\* the rest of checkUserLoggedIn: tabs, content script, re-injection
DomStep(tabs, first, retry) ==
  /\ authPc = "dom"
  /\ LET d == domStep(authCookie, tabs, first, retry, clockMs)
     IN  /\ authReturn' = [returned |-> TRUE, value |-> d.value, fromCache |-> FALSE,
                           cookie |-> authCookie,
                           domCase |-> domCase(tabs, first, retry),
                           calls |-> domCalls(tabs, first, retry), cached |-> d.cache]
         /\ IF d.cache
            THEN sessionCache' = <<d.value>> /\ sessionTimestamp' = <<clockMs>>
            ELSE UNCHANGED <<sessionCache, sessionTimestamp>>
  /\ authPc' = "idle"
  /\ UNCHANGED <<clockMs, ticks, authCookie, authCall, changedSince>>
  /\ UNCHANGED <<batchVars, matchVars, cookieVars, gateVars, pureVars, tokenVars>>

\* the passing of time
TickMs == {1, 29999}

Tick(d) ==
  /\ ticks < MaxTicks
  /\ ticks' = ticks + 1
  /\ clockMs' = clockMs + d
  /\ UNCHANGED <<sessionCache, sessionTimestamp, authPc, authCookie, authCall,
                 authReturn, changedSince>>
  /\ UNCHANGED <<batchVars, matchVars, cookieVars, gateVars, pureVars, tokenVars>>

\* changeInfo.cookie.domain.includes('splice.com')
IsSpliceDomain(domain) == domain \in {"splice.com", ".splice.com", "auth.splice.com"}

\* authCookieNames.some(name => changeInfo.cookie.name === name)
IsAuthCookie(name) == name \in {"auth0", "_splice_token_prod", "XSRF-TOKEN"}

Without(jar, c) == LET Keep(x) == x # c IN SelectSeq(jar, Keep)

InJar(jar, c) == \E k \in 1..Len(jar) : jar[k] = c

\* a cookie is set or removed, and the chrome.cookies.onChanged listener runs
CookieChanged(c) ==
  /\ cookieJar' = IF InJar(cookieJar, c) THEN Without(cookieJar, c)
                  ELSE Append(cookieJar, c)
  /\ IF IsSpliceDomain(c.domain) /\ IsAuthCookie(c.name)
     THEN /\ sessionCache' = <<>>
          /\ sessionTimestamp' = <<>>
          /\ changedSince' = TRUE
     ELSE UNCHANGED <<sessionCache, sessionTimestamp, changedSince>>
  /\ UNCHANGED <<clockMs, ticks, authPc, authCookie, authCall, authReturn>>
  /\ UNCHANGED <<batchVars, matchVars, nowSec, cookieAuth, gateVars, pureVars, tokenVars>>

\* clearSessionCache() leaving the timestamp in place
ClearSessionCacheKeepingTimestamp ==
  /\ sessionCache # <<>>
  /\ sessionCache' = <<>>
  /\ UNCHANGED <<sessionTimestamp, clockMs, ticks, authPc, authCookie, authCall, authReturn,
                 changedSince>>
  /\ UNCHANGED <<batchVars, matchVars, cookieVars, gateVars, pureVars, tokenVars>>

\* clearSessionCache(), on the popup's clearSessionCache message or when a
\* tab leaves splice.com
ClearSessionCache ==
  /\ sessionCache # <<>>
  /\ sessionCache' = <<>>
  /\ sessionTimestamp' = <<>>
  /\ UNCHANGED <<clockMs, ticks, authPc, authCookie, authCall, authReturn, changedSince>>
  /\ UNCHANGED <<batchVars, matchVars, cookieVars, gateVars, pureVars, tokenVars>>

NextSession ==
  \/ CallStart
  \/ \E throws \in BOOLEAN : CookiesRead(throws)
  \/ \E tabs \in AuthTabCases, first \in DomReplies, retry \in DomRetries :
       DomStep(tabs, first, retry)
  \/ \E d \in TickMs : Tick(d)
  \/ \E c \in SessionCookies : CookieChanged(c)
  \/ ClearSessionCache

SpecSession == Init /\ [][NextSession]_vars

----------------------------------------------------------------------------
(* The popup's session check and the start of a batch run *)

\* what safeSendMessage({action: 'checkAuth'}) gives the popup
GateReply(kind, loggedIn) == [kind |-> kind, loggedIn |-> loggedIn]

GateReplies ==
  { GateReply("value", "true"), GateReply("value", "false"),
    GateReply("value", Undef), GateReply("undefined", Undef),
    GateReply("rejected", Undef) }

\* checkAuthentication: showAuthenticatedState or showLoginPrompt
checkAuthentication(reply) ==
  IF reply.kind = "value" /\ reply.loggedIn = "true" THEN "in" ELSE "out"

\* init() of a popup that has just been opened: checkAuthentication shows
\* the main interface or the login prompt
PopupInit(reply) ==
  /\ ~isProcessing
  /\ LET verdict == checkAuthentication(reply)
     IN  gate' = [mainInterface |-> verdict = "in", verdict |-> verdict, fresh |-> TRUE]
  /\ UNCHANGED <<runGate, batchVars, matchVars, cookieVars, sessionVars, pureVars, tokenVars>>

\* a click on the process button of a displayed main interface:
\* processSamples, which consults neither the session manager nor the verdict
ClickProcessSamples(lines) ==
  /\ gate.mainInterface
  /\ ProcessSamplesStep(lines)
  /\ runGate' = [started |-> TRUE, checked |-> gate.fresh, verdict |-> gate.verdict]
  /\ gate' = [gate EXCEPT !.fresh = FALSE]
  /\ UNCHANGED <<matchVars, cookieVars, sessionVars, pureVars, tokenVars>>

\* the search replies of the runs started here: a sample, or a failure
GateSearchReplies ==
  { Resolved(SearchReply(TRUE, TRUE, "asset-uuid-1", "false", Undef)),
    Resolved(SearchReply(FALSE, FALSE, Undef, Undef, "Unknown action")) }

NextGate ==
  \/ \E reply \in GateReplies : PopupInit(reply)
  \/ \E lines \in Inputs : ClickProcessSamples(lines)
  \/ BatchLoop("sent")
  \/ BatchReturn
  \/ \E r \in responses : PopupSearchReply(r, "sent")
  \/ \E q \in pending, reply \in GateSearchReplies : SwSearchSamples(q, "existing", reply)

SpecGate == Init /\ [][NextGate]_vars

----------------------------------------------------------------------------
(* validateSampleInput and processSamples on raw input of up to 22 names *)

BlankLine(k) == IF k % 2 = 1 THEN <<>> ELSE <<" ", " ">>
NameLine(k) == IF k % 2 = 1 THEN <<"a">> ELSE <<" ", "B", " ">>

\* input.split('\n') of a raw input: blank lines, then names, then possibly
\* a blank last line
RawInput(blanks, names, trailing) ==
  [k \in 1..blanks |-> BlankLine(k)] \o [k \in 1..names |-> NameLine(k)]
    \o [k \in 1..trailing |-> <<" ">>]

RawInputs ==
  { RawInput(b, n, t) : b \in 0..MaxBlankLines, n \in 0..MaxInputNames, t \in 0..1 }
    \ {<<>>}

InitValidate ==
  /\ InitBatch
  /\ InitMatchIdle
  /\ InitCookiesIdle
  /\ InitSessionIdle
  /\ InitGate
  /\ InitRemoteIdle
  /\ InitToken
  /\ InitSearchIdle
  /\ InitState
  /\ InitHandlersIdle
  /\ InitTwiceIdle
  /\ vLines \in RawInputs
  /\ vValidation = NotValidated
  /\ vDone = FALSE

\* processSamples on the raw input: the validation, and the start of the
\* batch when it passes
ValidateAndStart ==
  /\ ~vDone
  /\ vDone' = TRUE
  /\ vValidation' = validateSampleInput(vLines)
  /\ IF validateSampleInput(vLines).isValid
     THEN ProcessSamplesStep(vLines)
     ELSE UNCHANGED batchVars
  /\ UNCHANGED <<vLines, offInput>>

NextValidate ==
  \/ ValidateAndStart
  \/ BatchLoop("sent")
  \/ \E q \in pending :
       SwSearchSamples(q, "existing",
                       Resolved(SearchReply(FALSE, FALSE, Undef, Undef, "Unknown action")))
  \/ \E r \in responses : PopupSearchReply(r, "sent")
  \/ BatchReturn

SpecValidate == InitValidate /\ [][NextValidate]_vars

----------------------------------------------------------------------------
(* executeInPageContext on drawn answers of the remote service *)

\* the status words a GraphQL error message can hold
StatusWords == {"403", "Forbidden", "401", "Unauthorized", "404", "Not Found"}

RemoteCases ==
  { Remote("errors", marks, Undef) : marks \in SUBSET StatusWords }
    \cup { Remote("http_error", marks, Undef) :
             marks \in {{"401", "Unauthorized"}, {"403", "Forbidden"},
                        {"404", "Not Found"}, {"500"}} }
    \cup { Remote("data", {}, "https://splice.com/license-1.pdf"),
           Remote("no_data", {}, Undef),
           Remote("network_error", {}, Undef) }

InitRemote ==
  /\ InitBatch
  /\ InitMatchIdle
  /\ InitCookiesIdle
  /\ InitSessionIdle
  /\ InitGate
  /\ InitInputIdle
  /\ InitToken
  /\ InitSearchIdle
  /\ InitState
  /\ InitHandlersIdle
  /\ InitTwiceIdle
  /\ rRemote \in RemoteCases
  /\ rResult = Failure(Undef)
  /\ rDone = FALSE

\* executeInPageContext once the token is there: the fetch and the mapping
\* of its answer
ExecuteInPageContext ==
  /\ ~rDone
  /\ rDone' = TRUE
  /\ rResult' = mapRemote(rRemote)
  /\ UNCHANGED <<rRemote, offRemote>>

NextRemote == ExecuteInPageContext

SpecRemote == InitRemote /\ [][NextRemote]_vars

----------------------------------------------------------------------------
(* getAuthToken: the bounded wait for the page script, inside one batch run *)

offToken == <<matchVars, cookieVars, sessionVars, gateVars, pureVars>>

\* the one batch run of this machine
StartRun(lines) ==
  /\ pc = "idle"
  /\ ProcessSamples(lines)

\* the listener has the sample details and executeInPageContext calls
\* getAuthToken: GET_AUTH_TOKEN is posted and the 5 s timer is armed
GetAuthToken(c) ==
  /\ c \in csPending
  /\ tokenWait.state = "none"
  /\ tokenWait' = [state |-> "waiting", pos |-> c.pos, token |-> Null]
  /\ UNCHANGED <<tokenLog, batchVars, offToken>>

\* the page script posts AUTH_TOKEN_RESPONSE, with the token it found or
\* with null, before the timer fires
PageAnswers(token) ==
  /\ tokenWait.state = "waiting"
  /\ tokenWait' = [tokenWait EXCEPT !.state = "answered", !.token = token]
  /\ UNCHANGED <<tokenLog, batchVars, offToken>>

\* the timer never firing
TokenTimeoutNever ==
  /\ FALSE
  /\ UNCHANGED vars

\* setTimeout(..., 5000): resolve(null)
TokenTimeout ==
  /\ tokenWait.state = "waiting"
  /\ tokenWait' = [tokenWait EXCEPT !.state = "timedout"]
  /\ UNCHANGED <<tokenLog, batchVars, offToken>>

\* executeInPageContext keeping the token in a field after its call
TokenResolvedKeepingToken(c, remote) ==
  /\ tokenWait.state \in {"answered", "timedout"}
  /\ c.pos = tokenWait.pos
  /\ CsGenerateLicenseStep(c, "answered", Lookup("item", "asset-uuid-1", Undef),
                           tokenWait.token, remote)
  /\ tokenLog' = Append(tokenLog, [pos |-> tokenWait.pos, outcome |-> tokenWait.state])
  /\ tokenWait' = [tokenWait EXCEPT !.state = "none", !.pos = 0]
  /\ UNCHANGED offToken

\* executeInPageContext resumes with the token or with null, and the
\* listener answers
TokenResolved(c, remote) ==
  /\ tokenWait.state \in {"answered", "timedout"}
  /\ c.pos = tokenWait.pos
  /\ CsGenerateLicenseStep(c, "answered", Lookup("item", "asset-uuid-1", Undef),
                           tokenWait.token, remote)
  /\ tokenLog' = Append(tokenLog, [pos |-> tokenWait.pos, outcome |-> tokenWait.state])
  /\ tokenWait' = NoWait
  /\ UNCHANGED offToken

OwnedReply == Resolved(SearchReply(TRUE, TRUE, "asset-uuid-1", "true", Undef))

TokenSearch == \E q \in pending : SwSearchSamples(q, "existing", OwnedReply)
TokenForward == \E q \in pending : SwGenerateLicense(q, "active")
TokenGet == \E c \in csPending : GetAuthToken(c)
TokenResume == \E c \in csPending, remote \in Remotes : TokenResolved(c, remote)
TokenSearchReply == \E r \in responses : PopupSearchReply(r, "sent")
TokenLicenseReply == \E r \in responses : PopupLicenseReply(r)

NextToken ==
  \/ SaveLicenseInfo("Jane Doe", "Jane Doe")
  \/ \E lines \in Inputs : StartRun(lines)
  \/ BatchLoop("sent")
  \/ BatchReturn
  \/ Delay
  \/ TokenSearch
  \/ TokenSearchReply
  \/ TokenForward
  \/ TokenGet
  \/ \E token \in {"eyJ-access-token", Null} : PageAnswers(token)
  \/ TokenTimeout
  \/ TokenResume
  \/ TokenLicenseReply

\* the timer fires, messages are delivered and ready continuations run; the
\* page script and the user are under no obligation
SpecToken ==
  /\ Init
  /\ [][NextToken]_vars
  /\ WF_vars(TokenTimeout)
  /\ WF_vars(BatchLoop("sent")) /\ WF_vars(BatchReturn) /\ WF_vars(Delay)
  /\ WF_vars(TokenSearch) /\ WF_vars(TokenSearchReply) /\ WF_vars(TokenForward)
  /\ WF_vars(TokenGet) /\ WF_vars(TokenResume) /\ WF_vars(TokenLicenseReply)

----------------------------------------------------------------------------
(* searchSamples on every tab state and every reply *)

\* no Splice tab is open ("none": the current revision creates one), one is
\* open, or the tabs API rejects
SearchTabCases == {"existing", "none", "throws"}

\* what the awaited sendMessage can end with: the replies of the content
\* script, a reply with no success and no error, one with an empty error,
\* undefined, and the rejections of the message channel
SearchReplies ==
  CsSearchReplies \cup
  { Resolved(SearchReply(FALSE, FALSE, Undef, Undef, Undef)),
    Resolved(SearchReply(FALSE, FALSE, Undef, Undef, "")),
    Resolved(SearchReply(FALSE, TRUE, "asset-uuid-1", "true", "GraphQL request failed")),
    ResolvedUndefined,
    Rejected(MsgNoReceiver),
    Rejected(MsgPortClosed),
    Rejected(MsgContextInvalidated) }

offSearch == <<batchVars, matchVars, cookieVars, sessionVars, gateVars, inputVars,
               remoteVars, tokenVars, stateVars, twiceVars,
   handlerVars>>

InitSearch ==
  /\ InitBatch
  /\ InitMatchIdle
  /\ InitCookiesIdle
  /\ InitSessionIdle
  /\ InitGate
  /\ InitInputIdle
  /\ InitRemoteIdle
  /\ InitToken
  /\ InitState
  /\ InitHandlersIdle
  /\ InitTwiceIdle
  /\ sQuery \in Names
  /\ sActive \in BOOLEAN
  /\ sTabs \in SearchTabCases
  /\ sReply \in SearchReplies
  /\ sResult = Failure(Undef)
  /\ sEarlier = Failure(Undef)
  /\ sDone = FALSE

SearchSamples ==
  /\ ~sDone
  /\ sDone' = TRUE
  /\ sResult' = searchSamples(sQuery, sTabs, sReply)
  /\ sEarlier' = searchSamplesEarlier(sQuery, sActive, sTabs, sReply)
  /\ UNCHANGED <<sQuery, sActive, sTabs, sReply, offSearch>>

NextSearch == SearchSamples

SpecSearch == InitSearch /\ [][NextSearch]_vars

----------------------------------------------------------------------------
(* The settings operations around one batch run *)

\* the licenseInfo strings a backup file can carry: those of ImportValues,
\* and base64 JSON whose legalName is empty or whose fields are missing
ImportFiles ==
  ImportValues \cup
  { Stored(TRUE, TRUE, "", "Jane Doe"),
    Stored(TRUE, TRUE, Undef, Undef) }

SettingsSearch == \E q \in pending : SwSearchSamples(q, "existing", OwnedReply)
SettingsForward == \E q \in pending : SwGenerateLicense(q, "active")
SettingsIssue ==
  \E c \in csPending, remote \in Remotes :
    CsGenerateLicense(c, "answered", Lookup("item", "asset-uuid-1", Undef),
                      "eyJ-access-token", remote)

NextSettings ==
  \/ \E legalName \in FormValues, artistName \in FormValues :
       SaveLicenseInfo(legalName, artistName)
  \/ ClearLicenseInfo
  \/ \E v \in ImportFiles : ImportData(v)
  \/ \E lines \in Inputs : StartRun(lines)
  \/ BatchLoop("sent")
  \/ BatchReturn
  \/ Delay
  \/ SettingsSearch
  \/ \E r \in responses : PopupSearchReply(r, "sent")
  \/ SettingsForward
  \/ SettingsIssue
  \/ \E r \in responses : PopupLicenseReply(r)

SpecSettings == Init /\ [][NextSettings]_vars

----------------------------------------------------------------------------
(* PopupManager.saveState, restoreState, clearResults (popup/popup.js) *)

\* const oneHour = 60 * 60 * 1000
oneHour == 3600000

\* the object saveState writes under STATE_KEY
SavedState(input, res, now) == [input |-> input, results |-> res, timestamp |-> now]

\* Date.now() - state.timestamp > oneHour
stateExpired(timestamp, now) == now - timestamp > oneHour

\* what the user can type into #sampleInput
InputTexts == {"", "kick_01.wav"}

\* what a finished batch hands to showResults
ResultLists ==
  { << Failed(<<"a">>, ErrNotFound) >>,
    << Succeeded(<<"a">>, [id |-> "asset-uuid-1"], "https://splice.com/license-1.pdf") >> }

offState == <<batchVars, matchVars, cookieVars, gateVars, inputVars, remoteVars,
              searchVars, tokenVars, twiceVars,
   handlerVars>>
sessionRest == <<sessionCache, sessionTimestamp, authPc, authCookie, authCall, authReturn,
                 changedSince>>

\* new PopupManager(): the fields of the constructor, then init's
\* restoreState on what storage holds
OpenPopupStep ==
  /\ ~popupOpen
  /\ popupOpen' = TRUE
  /\ cleared' = FALSE
  /\ IF popupState = <<>>
     THEN /\ restored' = [NotRestored EXCEPT !.done = TRUE]
          /\ sampleInput' = ""
          /\ currentResults' = <<>>
          /\ UNCHANGED popupState
     ELSE LET state == popupState[1]
              age == clockMs - state.timestamp
          IN  IF stateExpired(state.timestamp, clockMs)
              THEN /\ popupState' = <<>>
                   /\ sampleInput' = ""
                   /\ currentResults' = <<>>
                   /\ restored' = [done |-> TRUE, had |-> TRUE, age |-> age,
                                   removed |-> TRUE, applied |-> FALSE, saved |-> popupState,
                                   input |-> "", results |-> <<>>]
              ELSE /\ sampleInput' = IF Truthy(state.input) THEN state.input ELSE ""
                   /\ currentResults' = IF Len(state.results) > 0 THEN state.results
                                        ELSE <<>>
                   /\ restored' = [done |-> TRUE, had |-> TRUE, age |-> age,
                                   removed |-> FALSE, applied |-> TRUE, saved |-> popupState,
                                   input |-> sampleInput', results |-> currentResults']
                   /\ UNCHANGED popupState

OpenPopup == OpenPopupStep /\ UNCHANGED <<sessionVars, offState>>

\* the popup closes: pagehide runs saveState
ClosePopup ==
  /\ popupOpen
  /\ popupOpen' = FALSE
  /\ popupState' = <<SavedState(sampleInput, currentResults, clockMs)>>
  /\ cleared' = FALSE
  /\ UNCHANGED <<sampleInput, currentResults, restored, sessionVars, offState>>

\* the input listener: the text changes and the debounced saveState runs
InputChanged(text) ==
  /\ popupOpen
  /\ text # sampleInput
  /\ sampleInput' = text
  /\ popupState' = <<SavedState(text, currentResults, clockMs)>>
  /\ cleared' = FALSE
  /\ UNCHANGED <<popupOpen, currentResults, restored, sessionVars, offState>>

\* processSamples after a batch: showResults(results), then saveState
ShowResults(res) ==
  /\ popupOpen
  /\ currentResults' = res
  /\ popupState' = <<SavedState(sampleInput, res, clockMs)>>
  /\ cleared' = FALSE
  /\ UNCHANGED <<popupOpen, sampleInput, restored, sessionVars, offState>>

\* clearResults: currentResults = [], then saveState
ClearResults ==
  /\ popupOpen
  /\ currentResults' = <<>>
  /\ popupState' = <<SavedState(sampleInput, <<>>, clockMs)>>
  /\ cleared' = TRUE
  /\ UNCHANGED <<popupOpen, sampleInput, restored, sessionVars, offState>>

\* time passing between two handlers, in milliseconds
StateTickMs == {1, 3599999}

StateTick(d) ==
  /\ ticks < MaxTicks
  /\ ticks' = ticks + 1
  /\ clockMs' = clockMs + d
  /\ UNCHANGED <<sessionRest, stateVars, offState>>

NextState ==
  \/ OpenPopup
  \/ ClosePopup
  \/ \E text \in InputTexts : InputChanged(text)
  \/ \E res \in ResultLists : ShowResults(res)
  \/ ClearResults
  \/ \E d \in StateTickMs : StateTick(d)

SpecState == Init /\ [][NextState]_vars

----------------------------------------------------------------------------
(* Credentials: the cookie store, the bearer token and extension storage *)

BearerToken == "eyJ-access-token"

\* the cookie store of a logged-in browser, and of one that never logged in
CredentialJars ==
  { << Cookie("_splice_token_prod", ".splice.com", NoExpiry),
       Cookie("auth0", "auth.splice.com", NoExpiry) >>,
    <<>> }

InitCredential ==
  /\ InitBatch
  /\ InitMatchIdle
  /\ InitLaterIdle
  /\ cookieJar \in CredentialJars
  /\ nowSec = 0
  /\ cookieAuth = NotChecked

\* processSamples once the batch has returned: showResults and saveState
CredentialShow ==
  /\ pc = "done"
  /\ currentResults # results
  /\ ShowResults(results)

NextCredential ==
  \/ \E throws \in BOOLEAN : CheckAuthViaCookies(throws)
  \/ OpenPopup
  \/ SaveLicenseInfo("Jane Doe", "Jane Doe")
  \/ \E lines \in Inputs : StartRun(lines)
  \/ BatchLoop("sent")
  \/ BatchReturn
  \/ Delay
  \/ TokenSearch
  \/ TokenSearchReply
  \/ TokenForward
  \/ TokenGet
  \/ \E token \in {BearerToken, Null} : PageAnswers(token)
  \/ TokenTimeout
  \/ TokenResume
  \/ TokenLicenseReply
  \/ CredentialShow

SpecCredential == InitCredential /\ [][NextCredential]_vars

----------------------------------------------------------------------------
(* The Resolver called twice on an unchanged remote state *)

\* a row of the search page: whether it shows the in-library mark, and the
\* UUID the lookups in its attributes, markup and page state end with
Row(inLibrary, uuid) == [inLibrary |-> inLibrary, name |-> <<"a">>, uuid |-> uuid]

Rows == { Row(l, u) : l \in BOOLEAN, u \in {Undef, "asset-uuid-1"} }

Pages == SeqUpTo(Rows, MaxRows)

\* Math.random().toString(36).substr(2, 9)
RandomIds == {"k3j9x2m1q", "p0o9i8u7y"}

\* extractSampleFromElement: null (here the empty set) for a row that is
\* not in the library, else a candidate with id || a random string
extractSampleFromElement(element, random) ==
  IF ~element.inLibrary THEN {}
  ELSE {[id |-> Or(element.uuid, random), name |-> element.name, inLibrary |-> TRUE]}

\* extractSearchResults: the candidates of all rows
extractSearchResults(page, randoms) ==
  UNION { extractSampleFromElement(page[k], randoms[k]) : k \in 1..Len(page) }

\* the candidates of searchSamples through the GraphQL search
graphqlCandidates(query, reply) ==
  LET v == searchSamples(query, "existing", reply)
  IN  { v.results[k] : k \in 1..Len(v.results) }

offTwice == <<batchVars, matchVars, cookieVars, sessionVars, gateVars, inputVars,
              remoteVars, searchVars, stateVars, tokenVars, handlerVars>>

InitTwice ==
  /\ InitBatch
  /\ InitMatchIdle
  /\ InitCookiesIdle
  /\ InitSessionIdle
  /\ InitGate
  /\ InitInputIdle
  /\ InitRemoteIdle
  /\ InitToken
  /\ InitSearchIdle
  /\ InitState
  /\ InitHandlersIdle
  /\ dStrategy \in {"graphql", "dom"}
  /\ dReply \in CsSearchReplies
  /\ dPage \in Pages
  /\ dCalls = 0
  /\ dFirst = {}
  /\ dSecond = {}

\* one call of the Resolver for the name <<"a">>; the page and the search
\* index are as they were
ResolveCall(randoms) ==
  /\ dCalls < 2
  /\ dCalls' = dCalls + 1
  /\ LET found == IF dStrategy = "graphql" THEN graphqlCandidates(<<"a">>, dReply)
                  ELSE extractSearchResults(dPage, randoms)
     IN  IF dCalls = 0
         THEN dFirst' = found /\ UNCHANGED dSecond
         ELSE dSecond' = found /\ UNCHANGED dFirst
  /\ UNCHANGED <<dStrategy, dReply, dPage, offTwice>>

NextTwice == \E randoms \in [1..Len(dPage) -> RandomIds] : ResolveCall(randoms)

SpecTwice == InitTwice /\ [][NextTwice]_vars

----------------------------------------------------------------------------
(* Properties of the batch run (Spec) *)

\* the entries of a log that belong to position i
At(log, i) == {k \in 1..Len(log) : log[k].pos = i}

\* the positions whose candidate was selected and owned
ReachedIssuance(i) ==
  \E k \in At(selectLog, i) : selectLog[k].match.inLibrary

\* C1: when processSamplesBatch has returned, the result list has exactly as
\* many entries as the input list, and the i-th result carries the i-th name,
\* whatever the searches and issuances answered.
ResultsOneForOne ==
  pc = "done" =>
    /\ Len(results) = Len(samples)
    /\ \A i \in 1..Len(samples) : results[i].sample = samples[i]

\* a returned batch of two different names, the first licensed, the second
\* failed by a missing reply
ResultsOneForOneWitness ==
  /\ pc = "done"
  /\ Len(samples) = 2
  /\ samples[1] # samples[2]
  /\ results[1].success
  /\ results[2].error = MsgUndefinedSuccess

\* C2: for every position of the batch, at most one generateLicense message is
\* sent by the popup, it is passed on to a content script at most once, and at
\* most one GenerateCertifiedLicense mutation is posted; no layer does more
\* than the layer above it asked for.
AtMostOneIssuance ==
  \A i \in 1..Len(samples) :
    /\ Cardinality(At(licenseLog, i)) <= 1
    /\ Cardinality(At(forwardLog, i)) <= Cardinality(At(licenseLog, i))
    /\ Cardinality({k \in 1..Len(mutationLog) : mutationLog[k].m.pos = i})
         <= Cardinality(At(forwardLog, i))

\* a name whose single mutation was answered with a failure, with the batch over
AtMostOneIssuanceWitness ==
  /\ pc = "done"
  /\ \E k \in 1..Len(mutationLog) :
       /\ mutationLog[k].m.pos = 1
       /\ ~results[1].success

\* C3: a name whose selected candidate has inLibrary false gets the
\* not-in-library failure, and no generateLicense message is sent for it.
NotOwnedNotIssued ==
  \A k \in 1..Len(selectLog) :
    ~selectLog[k].match.inLibrary =>
      LET i == selectLog[k].pos
      IN  /\ Len(results) >= i
          /\ results[i] = Failed(samples[i], ErrNotInLibrary)
          /\ At(licenseLog, i) = {}
          /\ \A j \in 1..Len(mutationLog) : mutationLog[j].m.pos # i

\* a not-owned candidate was selected while an identity was configured
NotOwnedNotIssuedWitness ==
  /\ pc = "done"
  /\ licenseInfo = encrypt([legalName |-> "Jane Doe", artistName |-> "Jane Doe"])
  /\ \E k \in 1..Len(selectLog) : ~selectLog[k].match.inLibrary

\* C5: a failure of one name never ends the batch: when the batch has
\* returned, the search was attempted once for every position, in input order,
\* and the message was sent unless safeSendMessage itself threw for that name;
\* the failure is the result of its own position.
FailureDoesNotStopBatch ==
  /\ \A k \in 1..Len(searchLog) : searchLog[k].pos = k
  /\ pc = "done" => Len(searchLog) = Len(samples)
  /\ \A k \in 1..Len(searchLog) :
       ~searchLog[k].sent =>
         Len(results) >= k /\ results[k] = Failed(samples[k], ErrReloaded)

\* the first name failed by a thrown error, the second name searched and licensed
FailureDoesNotStopBatchWitness ==
  /\ pc = "done"
  /\ Len(samples) = 2
  /\ results[1].error = ErrReloaded
  /\ searchLog[2].sent
  /\ results[2].success

\* C6: when the stored identity read for a name is absent or cannot be
\* decoded, no generateLicense message is sent for that name, and its result is
\* the not-configured failure (absent) or the decode failure (undecodable).
NoIssuanceWithoutIdentity ==
  \A k \in 1..Len(selectLog) :
    LET e == selectLog[k]
        i == e.pos
    IN  e.identityRead /\ (~e.stored.present \/ ~e.stored.b64 \/ ~e.stored.json) =>
          /\ Len(results) >= i
          /\ results[i] = Failed(samples[i], IF e.stored.present THEN ErrDecode
                                             ELSE ErrNotConfigured)
          /\ At(licenseLog, i) = {}

\* a name reached the issuance step while the store held an undecodable value
NoIssuanceWithoutIdentityWitness ==
  \E k \in 1..Len(selectLog) :
    /\ selectLog[k].identityRead
    /\ selectLog[k].stored.present
    /\ ~selectLog[k].stored.b64
    /\ results[selectLog[k].pos].error = ErrDecode

OneRequestAtATime ==
  /\ Cardinality(pending) + Cardinality(csPending) + Cardinality(responses) <= 1
  /\ \A q \in pending \cup csPending \cup responses : q.pos = Len(results) + 1
  /\ \A k \in 1..Len(searchLog) : searchLog[k].pos <= Len(results) + 1

\* the search of the second name is outstanding, the first result is recorded
OneRequestAtATimeWitness ==
  /\ Len(results) = 1
  /\ \E q \in pending : q.pos = 2 /\ q.action = "searchSamples"

\* C9 as claimed: every mutation carries the id of the candidate selected for
\* its name.
IssuedIdIsBestMatchId ==
  \A k \in 1..Len(mutationLog) :
    \A j \in At(selectLog, mutationLog[k].m.pos) :
      mutationLog[k].m.assetUuid = selectLog[j].match.id

\* C9 amended: every mutation carries the catalog_uuid (or, when the item has
\* none, the uuid) of the item that the content script's own SamplesSearch
\* lookup by the requested name returned; bestMatch.id is what a success
\* result reports as sampleId.
IssuedIdIsLookedUpId ==
  /\ \A k \in 1..Len(mutationLog) :
       LET e == mutationLog[k]
       IN  e.m.assetUuid = IF e.lookup.catalog_uuid \in {Undef, Null, ""}
                           THEN e.lookup.uuid ELSE e.lookup.catalog_uuid
  /\ \A i \in 1..Len(results) :
       results[i].success =>
         \A j \in At(selectLog, i) : results[i].sampleId = selectLog[j].match.id

\* a mutation posted with a catalog_uuid that differs from the selected id
IssuedIdIsLookedUpIdWitness ==
  \E k \in 1..Len(mutationLog) :
    /\ mutationLog[k].m.assetUuid = "catalog-uuid-1"
    /\ \E j \in At(selectLog, mutationLog[k].m.pos) :
         selectLog[j].match.id = "asset-uuid-1"

----------------------------------------------------------------------------
(* Properties of findBestMatch (SpecMatch) *)

SameIgnoringCase(s, t) ==
  Len(s) = Len(t) /\ \A i \in 1..Len(s) : LowerChar(s[i]) = LowerChar(t[i])

ContainsIgnoringCase(s, t) ==
  \E off \in 0..(Len(s) - Len(t)) :
    \A i \in 1..Len(t) : LowerChar(s[off + i]) = LowerChar(t[i])

EqualAt(k) == mCands[k].name # NoName /\ SameIgnoringCase(mCands[k].name, mQuery)
ContainsAt(k) == mCands[k].name # NoName /\ ContainsIgnoringCase(mCands[k].name, mQuery)

\* C4: findBestMatch returns the first candidate whose name equals the query
\* ignoring case, wherever it stands in the list; failing that the first
\* candidate whose name contains the query ignoring case; failing that the
\* first candidate; and null exactly when the list is empty.
BestMatchPriority ==
  mDone =>
    /\ mResult = NoMatch <=> mCands = <<>>
    /\ \A k \in 1..Len(mCands) :
         /\ EqualAt(k) /\ (\A j \in 1..(k - 1) : ~EqualAt(j)) => mResult = mCands[k]
         /\ /\ ContainsAt(k)
            /\ \A j \in 1..(k - 1) : ~ContainsAt(j)
            /\ \A j \in 1..Len(mCands) : ~EqualAt(j)
            => mResult = mCands[k]
    /\ mCands # <<>> /\ (\A j \in 1..Len(mCands) : ~ContainsAt(j)) => mResult = mCands[1]

\* an exact match in second place chosen over a substring match in first place
BestMatchPriorityWitness ==
  /\ mDone
  /\ Len(mCands) = 2
  /\ ContainsAt(1) /\ ~EqualAt(1)
  /\ EqualAt(2)
  /\ mResult = mCands[2]

----------------------------------------------------------------------------
(* Properties of checkAuthViaCookies (SpecCookies) *)

HasToken == \E k \in 1..Len(cookieJar) : cookieJar[k].name = "_splice_token_prod"

\* the store holds auth0 cookies only, each with an expiry date in the past
OnlyExpiredAuth0 ==
  /\ cookieJar # <<>>
  /\ \A k \in 1..Len(cookieJar) :
       /\ cookieJar[k].name = "auth0"
       /\ cookieJar[k].expirationDate # NoExpiry
       /\ cookieJar[k].expirationDate < nowSec

\* the first auth0 cookie of the store has an expirationDate that is set, not
\* zero, and earlier than the current time
FirstAuth0Expired ==
  \E k \in 1..Len(cookieJar) :
    /\ cookieJar[k].name = "auth0"
    /\ \A j \in 1..(k - 1) : cookieJar[j].name # "auth0"
    /\ cookieJar[k].expirationDate \notin {NoExpiry, 0}
    /\ cookieJar[k].expirationDate < nowSec

----------------------------------------------------------------------------
(* Properties of checkUserLoggedIn (SpecSession) *)

CookieLoggedOut(verdict) ==
  verdict.read /\ verdict.reason \in {"no_cookies", "auth0_expired", "no_splice_token"}

CookieLoggedIn(verdict) == verdict.read /\ verdict.conclusive /\ verdict.loggedIn

\* C11: when the cookie check concludes not logged in, the call returns
\* loggedIn = false without consulting any tab or content script: the DOM step
\* is never entered with such a verdict.
CookieLoggedOutIsFinal ==
  /\ authPc = "dom" => ~CookieLoggedOut(authCookie)
  /\ authReturn.returned /\ CookieLoggedOut(authReturn.cookie) =>
       /\ ~authReturn.value.loggedIn
       /\ authReturn.domCase = "none"

\* auth0 without the session token: logged out, no DOM step
CookieLoggedOutIsFinalWitness ==
  /\ authReturn.returned
  /\ authReturn.cookie.reason = "no_splice_token"
  /\ ~authReturn.value.loggedIn
  /\ authReturn.domCase = "none"
  /\ authPc = "idle"

\* the DOM step failed: no Splice tab, content script out of reach, or the
\* re-injected script did not confirm
DomFailed(case) ==
  case \in {"no_tab", "unreachable", "reinject_failed", "reinject_unconfirmed"}

\* C12 as claimed: the cookie check said logged in and the DOM step failed,
\* and the call still returns loggedIn = true.
CookieLoggedInSurvivesDomFailure ==
  authReturn.returned /\ CookieLoggedIn(authReturn.cookie) /\ DomFailed(authReturn.domCase)
    => authReturn.value.loggedIn

\* C13: a call returns the cached verdict only when a cache entry exists and
\* its age is strictly below the cache interval; from the interval on the
\* verdict is recomputed from the cookies.
CachedOnlyWhenFresh ==
  /\ authCall.fromCache => authCall.entry /\ authCall.age < cacheTimeout
  /\ authReturn.returned =>
       /\ authReturn.fromCache <=> authCall.fromCache
       /\ ~authReturn.fromCache => authReturn.cookie.checked

\* a cache entry whose age is exactly the interval: recomputed
CachedOnlyWhenFreshWitness ==
  /\ authCall.entry
  /\ authCall.age = cacheTimeout
  /\ ~authCall.fromCache
  /\ authReturn.returned
  /\ authReturn.cookie.checked

\* C14 as claimed: after the change of an authentication cookie has been
\* handled, the next call of checkUserLoggedIn that starts does not answer
\* from the cache.
CookieChangeForcesRecompute ==
  authCall.afterChange => ~authCall.fromCache

----------------------------------------------------------------------------
(* Properties of the popup's session check (SpecGate) *)

\* C15 as claimed: every batch run is preceded by a session check made for
\* that run, and no name is sent to the search when the verdict of that check
\* is not logged in.
EveryRunIsGated ==
  runGate.started =>
    /\ runGate.checked
    /\ searchLog # <<>> => runGate.verdict = "in"

----------------------------------------------------------------------------
(* Properties of the input validation (SpecValidate) *)

\* the lines of the raw input that hold something else than spaces
NamedLines == {k \in 1..Len(vLines) : \E i \in 1..Len(vLines[k]) : vLines[k][i] # " "}

----------------------------------------------------------------------------
(* Properties of the mapping of remote answers (SpecRemote) *)

IsFailureAnswer == rRemote.kind \in {"errors", "http_error"}
SignalsDenied == IsFailureAnswer /\ rRemote.marks \cap {"403", "Forbidden"} # {}
SignalsExpired == IsFailureAnswer /\ rRemote.marks \cap {"401", "Unauthorized"} # {}
SignalsNotFound == IsFailureAnswer /\ rRemote.marks \cap {"404", "Not Found"} # {}

ReportsNotOwned ==
  rResult.error = "Sample not in your library. Add this sample to your library before generating a license."
ReportsAuthExpired ==
  rResult.error = "Authentication expired. Please refresh the Splice.com page and try again."
ReportsNotFound ==
  rResult.error = "Sample not found on Splice. Please check the sample name."

\* C17 as claimed: an answer that signals one condition only is reported as
\* that condition: denied as not-owned, expired as auth-expired, not found
\* as not-found, and any other failure as none of the three.
RemoteOutcomeKinds ==
  rDone =>
    /\ ~rResult.success <=> rRemote.kind # "data"
    /\ SignalsDenied /\ ~SignalsExpired /\ ~SignalsNotFound => ReportsNotOwned
    /\ SignalsExpired /\ ~SignalsDenied /\ ~SignalsNotFound => ReportsAuthExpired
    /\ SignalsNotFound /\ ~SignalsDenied /\ ~SignalsExpired => ReportsNotFound
    /\ ~SignalsDenied /\ ~SignalsExpired /\ ~SignalsNotFound =>
         ~ReportsNotOwned /\ ~ReportsAuthExpired /\ ~ReportsNotFound

----------------------------------------------------------------------------
(* Properties of the wait for the auth token (SpecToken) *)

ErrNoToken ==
  "Unable to retrieve authentication token. Please make sure you are logged in to Splice.com"

\* a wait that ended by the timer left no mutation and a failure result
TimedOutNameFails ==
  \A k \in 1..Len(tokenLog) :
    tokenLog[k].outcome = "timedout" =>
      /\ \A j \in 1..Len(mutationLog) : mutationLog[j].m.pos # tokenLog[k].pos
      /\ Len(results) >= tokenLog[k].pos =>
           results[tokenLog[k].pos] = Failed(samples[tokenLog[k].pos], ErrNoToken)

\* C18: a wait for the token always ends; when it ends by the timer the name
\* gets a failure result without any mutation, and the batch goes on to the
\* next name and to its end.
TokenWaitIsBounded ==
  /\ []TimedOutNameFails
  /\ \A i \in 1..(MaxLines + 1) :
       (tokenWait.state = "waiting" /\ tokenWait.pos = i)
         ~> (tokenWait.state # "waiting" /\ Len(tokenLog) > 0)
  /\ \A i \in 1..(MaxLines + 1) :
       (tokenWait.state = "timedout" /\ tokenWait.pos = i)
         ~> (Len(results) >= i /\ ~results[i].success /\ (idx > i \/ pc = "done"))
  /\ (tokenWait.state = "waiting") ~> (pc = "done")

\* the first name timed out and failed, and the second name was processed
TokenWaitIsBoundedWitness ==
  /\ pc = "done"
  /\ Len(results) = 2
  /\ Len(tokenLog) = 2
  /\ tokenLog[1] = [pos |-> 1, outcome |-> "timedout"]
  /\ results[1] = Failed(samples[1], ErrNoToken)
  /\ results[2].success

----------------------------------------------------------------------------
(* Properties of searchSamples (SpecSearch) *)

\* the call met a failure: the tabs API rejected, the channel rejected, or
\* the reply is undefined or does not report success
SearchFailed ==
  \/ sTabs = "throws"
  \/ sReply.kind # "value"
  \/ ~sReply.val.success

\* success=false, no results, and a reason that is a non-empty string
FailureWithReason(result) ==
  /\ result.success = FALSE
  /\ result.results = <<>>
  /\ Truthy(result.error)

\* C19: searchSamples always returns a value; on every failure (tabs API,
\* message channel, failure reply, reply without its fields) the value has
\* success=false, an empty results list and a non-empty reason.
SearchFailureIsAValue ==
  sDone =>
    /\ sResult.success \in BOOLEAN
    /\ SearchFailed => FailureWithReason(sResult)
    /\ ~sResult.success => FailureWithReason(sResult)
    /\ (SearchFailed \/ (~sActive /\ sTabs = "none")) => FailureWithReason(sEarlier)

\* a reply without success and without error came back on an open channel
SearchFailureIsAValueWitness ==
  /\ sDone
  /\ sTabs = "existing"
  /\ sReply = Resolved(SearchReply(FALSE, FALSE, Undef, Undef, Undef))
  /\ sResult = Failure("Sample not found")

----------------------------------------------------------------------------
(* The empty candidate list in the batch run (Spec) *)

\* the popup resumes with search result r, which holds no candidate
ResumesWithEmpty(r) ==
  /\ pc = "awaitSearch"
  /\ r \in responses /\ r \notin responses'
  /\ r.pos = idx /\ r.action = "searchSamples"
  /\ r.outcome.kind = "value"
  /\ r.outcome.val.results = <<>>

\* C20: when the search result holds no candidate, with success or without,
\* the result pushed for the name is a failure carrying the name, with the
\* Resolver's reason or else the not-found text; the stored identity is not
\* read and no generateLicense message is sent for it.
EmptyCandidatesIsNotFound ==
  [][\A r \in responses :
       ResumesWithEmpty(r) =>
         /\ results' = Append(results,
                              Failed(samples[idx], Or(r.outcome.val.error, ErrNotFound)))
         /\ UNCHANGED <<selectLog, licenseLog, pending, csPending, forwardLog, mutationLog>>
    ]_vars

\* a search that succeeded with no candidate ended as not found, and nothing
\* was selected, read or sent for that name
EmptyCandidatesIsNotFoundWitness ==
  /\ Len(results) >= 1
  /\ results[1] = Failed(samples[1], ErrNotFound)
  /\ \A k \in 1..Len(selectLog) : selectLog[k].pos # 1
  /\ \A k \in 1..Len(licenseLog) : licenseLog[k].pos # 1

----------------------------------------------------------------------------
(* The success result in the batch run (Spec) *)

\* the mutation of log entry e was answered with a proofOfLicense that has a
\* downloadUrl
IssuedWithLocation(e) == e.remote.kind = "data" /\ Truthy(e.remote.downloadUrl)

----------------------------------------------------------------------------
(* The identity in storage and in the requests (SpecSettings) *)

\* C22: every generateLicense request in flight, and every mutation posted,
\* carries a non-empty legalName and a non-empty artistName.
IssuanceCarriesIdentity ==
  /\ \A q \in pending \cup csPending :
       q.action = "generateLicense" => Truthy(q.legalName) /\ Truthy(q.artistName)
  /\ \A k \in 1..Len(mutationLog) :
       Truthy(mutationLog[k].m.fullLegalName) /\ Truthy(mutationLog[k].m.artistName)

----------------------------------------------------------------------------
(* The saved popup state (SpecState) *)

\* C26: a saved state is restored on opening only if it is less than one
\* hour old; otherwise it is removed from storage and nothing is restored;
\* after clearResults the persisted results are empty.
SavedStateRestoredWithinTheHour ==
  /\ (restored.done /\ restored.had) =>
       /\ restored.applied <=> restored.age < oneHour
       /\ restored.applied =>
            /\ restored.input = restored.saved[1].input
            /\ restored.results = restored.saved[1].results
       /\ ~restored.applied =>
            /\ restored.removed
            /\ restored.input = "" /\ restored.results = <<>>
  /\ cleared => popupState # <<>> /\ popupState[1].results = <<>>

----------------------------------------------------------------------------
(* Credentials are read, used and dropped (SpecCredential) *)

\* the fields of a result
HoldsToken(r) ==
  BearerToken \in {r.error, r.sampleId, r.downloadUrl}

\* nothing in chrome.storage.local holds the bearer token
StorageHoldsNoToken ==
  /\ BearerToken \notin {licenseInfo.legalName, licenseInfo.artistName}
  /\ popupState # <<>> =>
       /\ popupState[1].input # BearerToken
       /\ \A k \in 1..Len(popupState[1].results) : ~HoldsToken(popupState[1].results[k])

\* the content script holds the token only between the page's answer and
\* the call that uses it
TokenHeldOnlyForTheCall == tokenWait.token # Null => tokenWait.state = "answered"

\* C23: no step writes the cookie store, nothing written to extension
\* storage holds the bearer token, and the token is not kept after the
\* issuance call that used it.
CredentialsNeverStored ==
  /\ [](StorageHoldsNoToken /\ TokenHeldOnlyForTheCall)
  /\ [][cookieJar' = cookieJar]_vars

\* the cookies were read, a license was issued with the token, and the
\* results were saved
CredentialsNeverStoredWitness ==
  /\ cookieAuth.checked /\ cookieAuth.loggedIn
  /\ pc = "done"
  /\ Len(mutationLog) >= 1
  /\ tokenLog # <<>> /\ tokenLog[1].outcome = "answered"
  /\ tokenWait = NoWait
  /\ popupState # <<>>
  /\ Len(popupState[1].results) >= 1
  /\ popupState[1].results[1].success

----------------------------------------------------------------------------
(* Resolving twice (SpecTwice) *)

\* C24: two calls of the Resolver with the same name on an unchanged remote
\* state return the same set of candidates, identifiers included.
ResolutionIsIdempotent == dCalls = 2 => dFirst = dSecond

----------------------------------------------------------------------------
(* The verdict that is neither logged in nor logged out (SpecSession) *)

\* the value says that the check could not be made: loggedIn false with the
\* error of a missing tab, a silent content script or a failed tabs query
IsIndeterminate(value) ==
  ~value.loggedIn /\ value.error \in {ErrNotOnSplice, ErrNoCommunication, ErrTabsQuery}

\* no Splice tab answered the check
TabUnreachable(case) == DomFailed(case) \/ case = "query_failed"

\* C25: a computed verdict is Indeterminate exactly when no Splice tab is
\* reachable and the cookies gave no conclusive signal, and an Indeterminate
\* verdict never says logged in.
IndeterminateExactlyWhenNoSignal ==
  (authReturn.returned /\ ~authReturn.fromCache) =>
    /\ IsIndeterminate(authReturn.value) <=>
         (TabUnreachable(authReturn.domCase) /\ ~authReturn.cookie.conclusive)
    /\ IsIndeterminate(authReturn.value) => ~authReturn.value.loggedIn

----------------------------------------------------------------------------
(* The pause between names (Spec) *)

\* C27: every step of the batch run that records the result of a name is
\* followed by the one-second pause, whatever the result is.
PauseAfterEveryName ==
  [][Len(results') = Len(results) + 1 => pc' = "delay"]_vars

----------------------------------------------------------------------------
(* Progress reports (Spec) *)

\* the reports made so far count 1, 2, ... with the total and the name of
\* the batch
ProgressCountsUp ==
  \A k \in 1..Len(progressLog) :
    /\ progressLog[k].current = k
    /\ progressLog[k].total = Len(samples)
    /\ progressLog[k].name = samples[k]

\* a step that reports progress and sends the search leaves results alone
ProgressLeavesResults ==
  [][(Len(progressLog') = Len(progressLog) + 1 /\ pc' = "awaitSearch")
       => results' = results]_vars

\* C28 as claimed: the report for name i is made after the result of name i
\* has been recorded.
ProgressAfterEachName ==
  /\ ProgressCountsUp
  /\ \A k \in 1..Len(progressLog) : progressLog[k].recorded >= progressLog[k].current

\* C28: the report for name i is made when name i starts, with exactly the
\* i - 1 results of the names before it recorded; the index runs 1..total in
\* increasing order, and the report does not change the results.
ProgressBeforeEachName ==
  /\ [](/\ ProgressCountsUp
        /\ \A k \in 1..Len(progressLog) : progressLog[k].recorded = k - 1
        /\ Len(progressLog) \in {Len(results), Len(results) + 1}
        /\ pc = "done" => Len(progressLog) = Len(samples))
  /\ ProgressLeavesResults

\* both names of a batch were reported, the second with one result recorded
ProgressBeforeEachNameWitness ==
  /\ pc = "done"
  /\ Len(samples) = 2
  /\ Len(progressLog) = 2
  /\ progressLog[2] = [current |-> 2, total |-> 2, name |-> samples[2], recorded |-> 1]
  /\ Len(results) = 2

----------------------------------------------------------------------------
(* The error value of a failure kind (Spec) *)

\* the selected candidate of name i has inLibrary false
NotOwnedLocally(i) ==
  \E k \in 1..Len(selectLog) : selectLog[k].pos = i /\ ~selectLog[k].match.inLibrary

\* the mutation posted for name i was answered with a 403 error
NotOwnedRemotely(i) ==
  \E k \in 1..Len(mutationLog) :
    /\ mutationLog[k].m.pos = i
    /\ mutationLog[k].remote.kind = "errors"
    /\ "403" \in mutationLog[k].remote.marks

\* the stored identity was absent when name i reached the identity check
IdentityWasMissing(i) ==
  \E k \in 1..Len(selectLog) :
    selectLog[k].pos = i /\ selectLog[k].identityRead /\ ~selectLog[k].stored.present

\* C29, on the kinds not-owned and missing-identity: the not-owned failures
\* of a run, found from the local flag or reported by the remote call, carry
\* one and the same error value, and that value is not the one of a
\* missing-identity failure.
OneValuePerFailureKind ==
  \A i, j \in 1..Len(results) :
    /\ (NotOwnedLocally(i) \/ NotOwnedRemotely(i)) /\ (NotOwnedLocally(j) \/ NotOwnedRemotely(j))
         => results[i].error = results[j].error
    /\ (NotOwnedLocally(i) \/ NotOwnedRemotely(i)) /\ IdentityWasMissing(j)
         => results[i].error # results[j].error

----------------------------------------------------------------------------
(* The single retry of the session check (SpecSession) *)

\* the first message of the returned call was rejected with 'Receiving end
\* does not exist'
ChannelNotEstablished ==
  /\ authReturn.returned
  /\ Len(authReturn.calls) >= 1
  /\ authReturn.calls[1].threw
  /\ IsNoReceiver(authReturn.calls[1].message)

ApiNames(calls) == [k \in 1..Len(calls) |-> calls[k].api]

\* the retry did not end with a confirmed session
FailedAfterRetry == ChannelNotEstablished /\ authReturn.domCase # "reinject_confirmed"

\* C30, as stated: after 'Receiving end does not exist' the check injects
\* the content script once and sends the message once more, whatever the
\* injection does
ChannelFailureInjectsAndRepeats ==
  ChannelNotEstablished =>
    ApiNames(authReturn.calls) = <<"sendMessage", "executeScript", "sendMessage">>

\* C30, amended: after 'Receiving end does not exist' the check injects the
\* content script exactly once; the message is repeated exactly once when the
\* injection succeeded and not at all when it threw; nothing is called after
\* that, and a check that does not end with a confirmed session returns
\* 'Cannot communicate with Splice.com' and stores nothing in the cache
SingleRetryWithReinjection ==
  /\ ChannelNotEstablished =>
       /\ Len(authReturn.calls) >= 2
       /\ authReturn.calls[2].api = "executeScript"
       /\ IF authReturn.calls[2].threw
          THEN ApiNames(authReturn.calls) = <<"sendMessage", "executeScript">>
          ELSE ApiNames(authReturn.calls) =
                 <<"sendMessage", "executeScript", "sendMessage">>
  /\ FailedAfterRetry =>
       /\ ~authReturn.cached
       /\ authReturn.value.error = ErrNoCommunication
       /\ ~authReturn.value.loggedIn
       /\ (sessionCache = <<>> \/ sessionCache[1] # authReturn.value)

\* the repeated message was rejected like the first, and the check returned
\* after it without a verdict in the cache
SingleRetryWithReinjectionWitness ==
  /\ ChannelNotEstablished
  /\ Len(authReturn.calls) = 3
  /\ authReturn.calls[3].threw
  /\ IsNoReceiver(authReturn.calls[3].message)
  /\ ~authReturn.cached
  /\ sessionCache = <<>>

----------------------------------------------------------------------------
(* The page script's GET_AUTH_TOKEN handler (popup/popup.js) *)

\* entries of localStorage
MaxEntries == 2

\* a value of localStorage: JSON text of an object with the three fields the
\* handler reads, the JSON text null, or text that is not JSON
JsonValue(body, access, id) ==
  [kind |-> "json", body |-> body, access |-> access, id |-> id, text |-> Undef]
JsonNull == [kind |-> "null", body |-> Undef, access |-> Undef, id |-> Undef, text |-> Undef]
RawValue(text) ==
  [kind |-> "raw", body |-> Undef, access |-> Undef, id |-> Undef, text |-> text]

StorageValues ==
  { JsonValue(Undef, "eyJ-access", Undef),
    JsonValue("eyJ-body-access", Undef, Undef),
    JsonValue(Undef, Undef, "eyJ-id"),
    JsonValue(Undef, "eyJ-access", "eyJ-id"),
    JsonValue(Undef, Undef, Undef),
    JsonNull,
    RawValue("eyJ-raw"),
    RawValue("dark") }

StorageKeys == {"auth0.ssodata", "@@auth0spajs@@::client", "refresh_token", "theme"}

StorageEntry(key, value) == [key |-> key, value |-> value]

\* localStorage, in the order of localStorage.key(i): no key twice
Storages ==
  { st \in SeqUpTo({StorageEntry(k, v) : k \in StorageKeys, v \in StorageValues},
                   MaxEntries) :
      \A i, j \in 1..Len(st) : st[i].key = st[j].key => i = j }

\* key.includes('auth') || key.includes('token') || key.includes('@@auth0spajs@@')
IsAuthKey(key) == key \in {"auth0.ssodata", "@@auth0spajs@@::client", "refresh_token"}

\* value.startsWith('eyJ')
StartsWithEyJ(text) == text \in {"eyJ-raw"}

\* Method 1: localStorage.getItem('auth0.ssodata'), parsed.access_token ||
\* parsed.id_token; a value that does not parse, or parses to null, throws
\* into the catch that only warns
ssoToken(storage) ==
  LET found == { k \in 1..Len(storage) : storage[k].key = "auth0.ssodata" }
  IN  IF found = {} THEN Null
      ELSE LET v == storage[CHOOSE k \in found : TRUE].value
           IN  IF v.kind # "json" THEN Null
               ELSE IF Truthy(v.access) THEN v.access
               ELSE IF Truthy(v.id) THEN v.id
               ELSE Null

\* Method 2: the loop over localStorage from entry i on; idToken is the
\* fallback kept so far
RECURSIVE scanStorage(_, _, _)
scanStorage(storage, i, idToken) ==
  IF i > Len(storage) THEN idToken
  ELSE LET key == storage[i].key
           v == storage[i].value
       IN  IF ~IsAuthKey(key) THEN scanStorage(storage, i + 1, idToken)
           ELSE IF v.kind = "json" /\ Truthy(v.body) THEN v.body
           ELSE IF v.kind = "json" /\ Truthy(v.access) THEN v.access
           ELSE IF v.kind = "json" /\ Truthy(v.id) /\ idToken = Null
           THEN scanStorage(storage, i + 1, v.id)
           ELSE IF v.kind = "raw" /\ StartsWithEyJ(v.text) /\ idToken = Null
           THEN scanStorage(storage, i + 1, v.text)
           ELSE scanStorage(storage, i + 1, idToken)

\* the token of the AUTH_TOKEN_RESPONSE
pageToken(storage) ==
  LET authToken == ssoToken(storage)
  IN  IF authToken # Null THEN authToken ELSE scanStorage(storage, 1, Null)

InitPage ==
  /\ InitBatch
  /\ InitMatchIdle
  /\ InitCookiesIdle
  /\ InitSessionIdle
  /\ InitGate
  /\ InitInputIdle
  /\ InitRemoteIdle
  /\ InitToken
  /\ InitSearchIdle
  /\ InitState
  /\ InitTwiceIdle
  /\ pageStorage \in Storages
  /\ pageAnswer = <<>>
  /\ csMessage = [action |-> Undef, name |-> <<>>]
  /\ csAnswer = <<>>
  /\ swPending = {}
  /\ swReplies = <<>>
  /\ swNext = 1
  /\ tokenRequests = <<>>
  /\ windowMessages = {}

\* the listener on a GET_AUTH_TOKEN message
GetAuthTokenRequest ==
  /\ pageAnswer = <<>>
  /\ pageAnswer' = <<pageToken(pageStorage)>>
  /\ UNCHANGED <<pageStorage, listenerVars, workerVars, overlapVars>>
  /\ UNCHANGED <<batchVars, matchVars, cookieVars, sessionVars, gateVars, inputVars,
                 remoteVars, searchVars, stateVars, twiceVars, tokenVars>>

NextPage == GetAuthTokenRequest

SpecPage == InitPage /\ [][NextPage]_vars

----------------------------------------------------------------------------
(* The content script's message listener (popup/popup.js, setupMessageListener) *)

\* the actions the service worker sends with chrome.tabs.sendMessage
SwActions ==
  {"getSessionData", "getXSRFToken", "extractSearchResults", "searchSampleViaGraphQL",
   "generateLicense", "test"}

\* the other actions the listener has a case for
OtherCsActions == {"getPageData", "searchSamples", "ping"}

\* sampleName / query of a message
CsNames == SeqUpTo({"a", "b"}, MaxNameLen) \ {<<>>}

CsMessage(action, name) == [action |-> action, name |-> name]

\* what the promise of an asynchronous case does
CsOutcomes == {"resolved", "rejected"}

MsgUnknownAction == "Unknown action"
MsgHandlerFailed == "handler failed"

CsReply(kind, error) == [kind |-> kind, error |-> error]

\* the switch of the listener: the argument of sendResponse
csListener(message, outcome) ==
  CASE message.action = "getSessionData" -> CsReply("sessionData", Undef)
    [] message.action = "getXSRFToken" ->
         IF outcome = "resolved" THEN CsReply("token", Undef)
         ELSE CsReply("error", MsgHandlerFailed)
    [] message.action = "getPageData" -> CsReply("pageData", Undef)
    [] message.action \in {"extractSearchResults", "searchSamples", "generateLicense"} ->
         IF outcome = "resolved" THEN CsReply("result", Undef)
         ELSE CsReply("failure", MsgHandlerFailed)
    [] message.action = "test" -> CsReply("working", Undef)
    [] message.action = "ping" -> CsReply("pong", Undef)
    [] OTHER -> CsReply("error", MsgUnknownAction)

InitListener ==
  /\ InitBatch
  /\ InitMatchIdle
  /\ InitCookiesIdle
  /\ InitSessionIdle
  /\ InitGate
  /\ InitInputIdle
  /\ InitRemoteIdle
  /\ InitToken
  /\ InitSearchIdle
  /\ InitState
  /\ InitTwiceIdle
  /\ pageStorage = <<>>
  /\ pageAnswer = <<>>
  /\ csMessage \in {CsMessage(a, n) : a \in SwActions \cup OtherCsActions, n \in CsNames}
  /\ csAnswer = <<>>
  /\ swPending = {}
  /\ swReplies = <<>>
  /\ swNext = 1
  /\ tokenRequests = <<>>
  /\ windowMessages = {}

\* the listener on csMessage
CsOnMessage(outcome) ==
  /\ csAnswer = <<>>
  /\ csAnswer' = <<csListener(csMessage, outcome)>>
  /\ UNCHANGED <<csMessage, pageVars, workerVars, overlapVars>>
  /\ UNCHANGED <<batchVars, matchVars, cookieVars, sessionVars, gateVars, inputVars,
                 remoteVars, searchVars, stateVars, twiceVars, tokenVars>>

NextListener == \E outcome \in CsOutcomes : CsOnMessage(outcome)

SpecListener == InitListener /\ [][NextListener]_vars

----------------------------------------------------------------------------
(* Overlapping getAuthToken calls (popup/popup.js, SpliceContentScript) *)

\* calls of getAuthToken
MaxRequests == 2

\* what the page script can find in localStorage at the time of a request
PageTokens == {"eyJ-access-1", "eyJ-access-2", Null}

\* a message posted to the window; requestId is the number of the call
\* (`auth_${Date.now()}_${random}`, taken to be unique)
WindowMessage(type, requestId, token) ==
  [type |-> type, requestId |-> requestId, token |-> token]

\* one call: whether responseHandler is still registered, whether the 5 s
\* timer is still to fire, the value the promise resolved with, and what
\* resolved it
NewRequest ==
  [listening |-> TRUE, timer |-> TRUE, value |-> <<>>, by |-> "none", from |-> 0]

\* a handler that takes the response of any request
matchesAnyResponse(data, requestId) == data.type = "AUTH_TOKEN_RESPONSE"

\* event.data.type === 'AUTH_TOKEN_RESPONSE' && event.data.requestId === requestId
matchesRequest(data, requestId) ==
  data.type = "AUTH_TOKEN_RESPONSE" /\ data.requestId = requestId

\* resolve(v) of a promise: the first call settles it, later calls do nothing
resolve(req, v, by, from) ==
  IF req.value = <<>> THEN [req EXCEPT !.value = <<v>>, !.by = by, !.from = from]
  ELSE req

offOverlap == <<batchVars, matchVars, cookieVars, sessionVars, gateVars, inputVars,
                remoteVars, searchVars, stateVars, twiceVars, tokenVars, pageVars,
                listenerVars, workerVars>>

\* getAuthToken: the handler is registered, GET_AUTH_TOKEN is posted, the
\* timer is armed
CallGetAuthToken ==
  /\ Len(tokenRequests) < MaxRequests
  /\ tokenRequests' = Append(tokenRequests, NewRequest)
  /\ windowMessages' = windowMessages \cup
       {WindowMessage("GET_AUTH_TOKEN", Len(tokenRequests) + 1, Null)}
  /\ UNCHANGED offOverlap

\* the page script's listener answers a GET_AUTH_TOKEN
PagePosts(m, token) ==
  /\ m \in windowMessages
  /\ m.type = "GET_AUTH_TOKEN"
  /\ windowMessages' = (windowMessages \ {m}) \cup
       {WindowMessage("AUTH_TOKEN_RESPONSE", m.requestId, token)}
  /\ UNCHANGED <<tokenRequests, offOverlap>>

\* a GET_AUTH_TOKEN that no page script hears
PageSilent(m) ==
  /\ m \in windowMessages
  /\ m.type = "GET_AUTH_TOKEN"
  /\ windowMessages' = windowMessages \ {m}
  /\ UNCHANGED <<tokenRequests, offOverlap>>

\* an AUTH_TOKEN_RESPONSE is delivered: every registered responseHandler runs
ResponseDelivered(m) ==
  /\ m \in windowMessages
  /\ m.type = "AUTH_TOKEN_RESPONSE"
  /\ windowMessages' = windowMessages \ {m}
  /\ tokenRequests' =
       [id \in 1..Len(tokenRequests) |->
          IF tokenRequests[id].listening /\ matchesRequest(m, id)
          THEN [resolve(tokenRequests[id], m.token, "response", m.requestId)
                  EXCEPT !.listening = FALSE]
          ELSE tokenRequests[id]]
  /\ UNCHANGED offOverlap

\* setTimeout(..., 5000): removeEventListener and resolve(null)
TimerFires(id) ==
  /\ id \in 1..Len(tokenRequests)
  /\ tokenRequests[id].timer
  /\ tokenRequests' =
       [tokenRequests EXCEPT ![id] =
          [resolve(tokenRequests[id], Null, "timeout", 0)
             EXCEPT !.listening = FALSE, !.timer = FALSE]]
  /\ UNCHANGED <<windowMessages, offOverlap>>

TimersFire == \E id \in 1..MaxRequests : TimerFires(id)

NextOverlap ==
  \/ CallGetAuthToken
  \/ \E m \in windowMessages, token \in PageTokens : PagePosts(m, token)
  \/ \E m \in windowMessages : PageSilent(m)
  \/ \E m \in windowMessages : ResponseDelivered(m)
  \/ TimersFire

\* an armed timer fires; the page script is under no obligation
SpecOverlap == Init /\ [][NextOverlap]_vars /\ WF_vars(TimersFire)

----------------------------------------------------------------------------
(* The service worker's message listener (chrome.runtime.onMessage) *)

\* messages received by the service worker
MaxMessages == 2

\* the cases of the switch, and an action it has no case for
WorkerActions ==
  {"checkAuth", "getXSRFToken", "searchSamples", "addSampleToLibrary", "generateLicense",
   "clearSessionCache", "debugCookies", "testContentScript"}

ReceivedActions == WorkerActions \cup {"getPageData"}

\* what the awaited call of a case does
HandlerOutcomes == {"returns", "throws"}

WorkerReply(kind, error, loggedIn) == [kind |-> kind, error |-> error, loggedIn |-> loggedIn]

\* handleMessage: the value its promise resolves with
handleMessage(action, outcome) ==
  IF action \notin WorkerActions THEN WorkerReply("error", MsgUnknownAction, Undef)
  ELSE IF action = "clearSessionCache" THEN WorkerReply("value", Undef, Undef)
  ELSE IF outcome = "returns" THEN WorkerReply("value", Undef, Undef)
  ELSE IF action \in {"debugCookies", "testContentScript"}
  THEN WorkerReply("failure", MsgHandlerFailed, Undef)
  ELSE WorkerReply("caught", MsgHandlerFailed, "false")

\* a listener that returns nothing: the channel closes when it returns
listenerKeepsChannelNever(action) == FALSE

\* return true: the channel stays open for the asynchronous sendResponse
listenerKeepsChannel(action) == TRUE

offWorker == <<batchVars, matchVars, cookieVars, sessionVars, gateVars, inputVars,
               remoteVars, searchVars, stateVars, twiceVars, tokenVars, pageVars,
               listenerVars, overlapVars>>

\* a message arrives and the listener starts handleMessage
SwReceive(action) ==
  /\ swNext <= MaxMessages
  /\ swPending' = swPending \cup {[id |-> swNext, action |-> action]}
  /\ swNext' = swNext + 1
  /\ UNCHANGED <<swReplies, offWorker>>

\* handleMessage settles and sendResponse is called with its value; the
\* response reaches the sender if the channel is still open
SwRespond(m, outcome) ==
  /\ m \in swPending
  /\ swPending' = swPending \ {m}
  /\ swReplies' = IF listenerKeepsChannel(m.action)
                  THEN Append(swReplies, [id |-> m.id, action |-> m.action,
                                          reply |-> handleMessage(m.action, outcome)])
                  ELSE swReplies
  /\ UNCHANGED <<swNext, offWorker>>

SwResponds == \E m \in swPending, outcome \in HandlerOutcomes : SwRespond(m, outcome)

NextWorker ==
  \/ \E action \in ReceivedActions : SwReceive(action)
  \/ SwResponds

\* the calls a handler awaits settle
SpecWorker == Init /\ [][NextWorker]_vars /\ WF_vars(SwResponds)

----------------------------------------------------------------------------
(* PopupManager.processSamples beside the handlers that save the popup's
   state, and the popup torn down while a batch runs (popup/popup.js) *)

\* what the batch and the saved state leave alone
offFlight == <<bestMatch, netVars, logVars, licenseInfo, matchVars, cookieVars, gateVars,
               inputVars, remoteVars, searchVars, tokenVars, twiceVars,
   handlerVars>>

\* the text of #sampleInput when Process is clicked, split into lines
FlightInputs == { << <<>> >>, << <<"a">> >>, << <<"a">>, <<"b">> >> }

\* what one name of a batch ends with
FlightOutcomes == {"found", "not_found"}

FlightResult(sample, outcome) ==
  IF outcome = "found"
  THEN Succeeded(sample, [id |-> "asset-uuid-1"], "https://splice.com/license-1.pdf")
  ELSE Failed(sample, ErrNotFound)

\* a click that starts a batch although one is running
clickStartsAlways(processing, validation) == validation.isValid

\* if (this.isProcessing) return; ... if (!validation.isValid) { ...; return; }
clickStarts(processing, validation) == ~processing /\ validation.isValid

\* new PopupManager() and init's restoreState
FlightOpen ==
  /\ OpenPopupStep
  /\ isProcessing' = FALSE
  /\ samples' = <<>>
  /\ results' = <<>>
  /\ idx' = 1
  /\ pc' = "idle"
  /\ UNCHANGED <<sessionVars, offFlight>>

\* a click on Process: processSamples up to the call of processSamplesBatch,
\* or its early return
FlightClick(lines) ==
  LET validation == validateSampleInput(lines)
  IN  /\ popupOpen
      /\ IF clickStarts(isProcessing, validation)
         THEN /\ isProcessing' = TRUE
              /\ samples' = validation.samples
              /\ results' = <<>>
              /\ idx' = 1
              /\ pc' = "loop"
         ELSE UNCHANGED <<isProcessing, samples, results, idx, pc>>
      /\ UNCHANGED <<stateVars, sessionVars, offFlight>>

\* one name of the batch completing with its result shown at once
NameCompletesShowing(outcome) ==
  /\ popupOpen
  /\ pc = "loop"
  /\ idx <= Len(samples)
  /\ results' = push(results, FlightResult(samples[idx], outcome))
  /\ idx' = idx + 1
  /\ currentResults' = results'
  /\ UNCHANGED <<isProcessing, samples, pc, popupState, popupOpen, sampleInput, restored,
                 cleared, sessionVars, offFlight>>

\* one turn of the loop of processSamplesBatch: a result is pushed to the
\* local array results
NameCompletes(outcome) ==
  /\ popupOpen
  /\ pc = "loop"
  /\ idx <= Len(samples)
  /\ results' = push(results, FlightResult(samples[idx], outcome))
  /\ idx' = idx + 1
  /\ UNCHANGED <<isProcessing, samples, pc, stateVars, sessionVars, offFlight>>

\* where the try block of processSamples can throw: nowhere, in
\* processSamplesBatch, or in showResults after currentResults is assigned
FlightThrows == {"none", "batch", "show"}

\* processSamplesBatch returns: showResults, saveState, and the finally block
FlightReturn(throws) ==
  /\ popupOpen
  /\ pc = "loop"
  /\ idx > Len(samples)
  /\ currentResults' = IF throws = "batch" THEN currentResults ELSE results
  /\ popupState' = IF throws = "none"
                   THEN <<SavedState(sampleInput, results, clockMs)>>
                   ELSE popupState
  /\ cleared' = IF throws = "none" THEN FALSE ELSE cleared
  /\ isProcessing' = FALSE
  /\ pc' = "idle"
  /\ UNCHANGED <<samples, results, idx, popupOpen, sampleInput, restored, sessionVars,
                 offFlight>>

\* setInterval(..., 5000): saveState if there are results
IntervalSave ==
  /\ popupOpen
  /\ Len(currentResults) > 0
  /\ popupState' = <<SavedState(sampleInput, currentResults, clockMs)>>
  /\ cleared' = FALSE
  /\ UNCHANGED <<popupOpen, sampleInput, currentResults, restored, popupVars, netVars,
                 logVars, licenseInfo, matchVars, cookieVars, gateVars, inputVars,
                 remoteVars, searchVars, tokenVars, twiceVars,
   handlerVars, sessionVars>>

\* the popup window goes away: pagehide calls saveState, whose write may or
\* may not be done before the context is destroyed; a batch in flight is
\* abandoned with the context (samples, results and idx keep what it had
\* reached)
Teardown(saved) ==
  /\ popupOpen
  /\ popupOpen' = FALSE
  /\ popupState' = IF saved THEN <<SavedState(sampleInput, currentResults, clockMs)>>
                   ELSE popupState
  /\ cleared' = FALSE
  /\ isProcessing' = FALSE
  /\ pc' = IF pc = "loop" THEN "torn" ELSE pc
  /\ UNCHANGED <<samples, results, idx, sampleInput, currentResults, restored,
                 sessionVars, offFlight>>

NextFlight ==
  \/ FlightOpen
  \/ \E lines \in FlightInputs : FlightClick(lines)
  \/ \E outcome \in FlightOutcomes : NameCompletes(outcome)
  \/ \E throws \in FlightThrows : FlightReturn(throws)
  \/ IntervalSave
  \/ \E saved \in BOOLEAN : Teardown(saved)
  \/ \E text \in InputTexts : InputChanged(text)
  \/ ClearResults

SpecFlight == Init /\ [][NextFlight]_vars

----------------------------------------------------------------------------
(* No partial result of a batch in flight is saved (SpecFlight) *)

\* C31: between the start of a batch and its return or the teardown of the
\* popup, no step assigns this.currentResults anything but the empty list of
\* clearResults, and whatever is written to storage is currentResults; so
\* the saved state holds no result the running batch has pushed.
NoPartialResultPersisted ==
  [][(pc = "loop" /\ pc' \in {"loop", "torn"}) =>
       /\ currentResults' \in {currentResults, <<>>}
       /\ (popupState' # popupState =>
             popupState' = <<SavedState(sampleInput', currentResults', clockMs)>>)]_vars

\* the popup was torn down after a name of the batch had completed, the
\* state was saved, and it holds no result
NoPartialResultPersistedWitness ==
  /\ pc = "torn"
  /\ Len(results) >= 1
  /\ ~popupOpen
  /\ popupState # <<>>
  /\ popupState[1].results = <<>>

----------------------------------------------------------------------------
(* One batch at a time (SpecFlight) *)

\* C36: isProcessing is true exactly while a batch runs, so it is false
\* again after a batch that returned, threw, or was refused by the
\* validation; and while it is true no click on Process starts anything: the
\* names of the running batch stay, and its results only grow by one.
OneBatchAtATime ==
  /\ [](isProcessing <=> pc = "loop")
  /\ [][(isProcessing /\ popupOpen') =>
          /\ samples' = samples
          /\ idx' >= idx
          /\ (results' = results \/ Len(results') = Len(results) + 1)]_vars

\* a batch of two names ended by an exception: nothing was saved, and
\* isProcessing is false again
OneBatchAtATimeWitness ==
  /\ popupOpen
  /\ pc = "idle"
  /\ ~isProcessing
  /\ Len(samples) = 2
  /\ Len(results) = 2
  /\ popupState = <<>>

----------------------------------------------------------------------------
(* Candidates with a generated identifier (SpecTwice) *)

\* the fields of a candidate that say how far it can be trusted
ConfidenceFields == {"lowConfidence", "confidence", "placeholder", "generatedId"}

\* C32: a candidate of the DOM fallback whose identifier was generated
\* locally carries a field that marks it, which a candidate with an
\* identifier of the page does not carry.
PlaceholderIdIsFlagged ==
  (dCalls >= 1 /\ dStrategy = "dom") =>
    \A c \in dFirst :
      c.id \in RandomIds => ConfidenceFields \cap DOMAIN c # {}

----------------------------------------------------------------------------
(* The token the page script answers with (SpecPage) *)

\* the access tokens held by the auth-related entries of localStorage
AccessTokensHeld(storage) ==
  { storage[k].value.access : k \in { j \in 1..Len(storage) :
        /\ IsAuthKey(storage[j].key)
        /\ storage[j].value.kind = "json"
        /\ Truthy(storage[j].value.access) } }
  \cup
  { storage[k].value.body : k \in { j \in 1..Len(storage) :
        /\ IsAuthKey(storage[j].key)
        /\ storage[j].value.kind = "json"
        /\ Truthy(storage[j].value.body) } }

\* C33: when an auth-related entry of localStorage holds an access token,
\* the answer is an access token of localStorage; an id token or raw token
\* is answered only when none holds one.
AccessTokenIsPreferred ==
  (pageAnswer # <<>> /\ AccessTokensHeld(pageStorage) # {}) =>
    pageAnswer[1] \in AccessTokensHeld(pageStorage)

----------------------------------------------------------------------------
(* The actions of the service worker met by the content script (SpecListener) *)

\* C34: a message whose action is one the service worker sends is answered
\* by a case of the listener, never by the default 'Unknown action'.
WorkerActionsAreHandled ==
  (csAnswer # <<>> /\ csMessage.action \in SwActions) =>
    csAnswer[1].error # MsgUnknownAction

----------------------------------------------------------------------------
(* Each getAuthToken call resolves once (SpecOverlap) *)

\* the promise is settled by the response of its own request, or with null
\* by its timer
ResolvedByOwnResponseOrTimer ==
  \A id \in 1..Len(tokenRequests) :
    LET req == tokenRequests[id]
    IN  /\ req.by = "response" => req.from = id /\ req.value # <<>>
        /\ req.by = "timeout" => req.value = <<Null>>
        /\ req.by = "none" => req.value = <<>>

\* a settled promise keeps its value
OutcomeNeverChanges ==
  \A id \in 1..Len(tokenRequests) :
    tokenRequests[id].value # <<>> =>
      /\ Len(tokenRequests') >= id
      /\ tokenRequests'[id].value = tokenRequests[id].value
      /\ tokenRequests'[id].by = tokenRequests[id].by

AllCallsResolved == \A id \in 1..Len(tokenRequests) : tokenRequests[id].value # <<>>

\* C37: every getAuthToken call resolves, with the token of the response
\* that carries its own requestId or with null at its timeout; once resolved
\* its value is not changed by a later response, by a response of another
\* call or by the timer.
TokenCallResolvesOnce ==
  /\ []ResolvedByOwnResponseOrTimer
  /\ [][OutcomeNeverChanges]_vars
  /\ []<>AllCallsResolved

\* two overlapping calls: the first resolved with the token of its own
\* response, the second at its timeout while its response is still on the way
TokenCallResolvesOnceWitness ==
  /\ Len(tokenRequests) = 2
  /\ tokenRequests[1].by = "response"
  /\ tokenRequests[1].value = <<"eyJ-access-1">>
  /\ tokenRequests[2].by = "timeout"
  /\ WindowMessage("AUTH_TOKEN_RESPONSE", 2, "eyJ-access-2") \in windowMessages

----------------------------------------------------------------------------
(* One response to every message of the service worker (SpecWorker) *)

RepliesTo(id) == { k \in 1..Len(swReplies) : swReplies[k].id = id }

IsPendingMessage(id) == \E m \in swPending : m.id = id

\* no message has two responses, and one that is no longer handled has one
OneResponseEach ==
  \A id \in 1..(swNext - 1) :
    Cardinality(RepliesTo(id)) = IF IsPendingMessage(id) THEN 0 ELSE 1

\* the response to an unknown action and to a handler that threw
ErrorsAreAnswered ==
  \A k \in 1..Len(swReplies) :
    /\ swReplies[k].action \notin WorkerActions =>
         swReplies[k].reply.error = MsgUnknownAction
    /\ swReplies[k].reply.kind = "caught" =>
         Truthy(swReplies[k].reply.error) /\ swReplies[k].reply.loggedIn = "false"

\* C39: every message the service worker receives gets exactly one
\* response, {error: 'Unknown action'} for an action without a case and an
\* error with loggedIn false when the handler threw; no message stays
\* without a response.
EveryMessageIsAnswered ==
  /\ [](OneResponseEach /\ ErrorsAreAnswered)
  /\ []<>(swPending = {})

\* an unknown action and a handler that threw have both been answered
EveryMessageIsAnsweredWitness ==
  /\ swPending = {}
  /\ Len(swReplies) = 2
  /\ \E k \in 1..2 : swReplies[k].reply.error = MsgUnknownAction
  /\ \E k \in 1..2 : swReplies[k].reply.kind = "caught"

----------------------------------------------------------------------------
(* A cookie change during a session check (SpecSession) *)

\* the session token is in the cookie store
TokenInJar == \E k \in 1..Len(cookieJar) : cookieJar[k].name = "_splice_token_prod"

\* C35: a check whose cookie reading said logged in does not end by storing
\* a verdict in the cache when the session token it read has been removed
\* from the cookie store in the meantime.
InFlightCheckCachesNoStaleVerdict ==
  [][(authPc = "dom" /\ authPc' = "idle" /\ CookieLoggedIn(authCookie)
        /\ sessionCache' # <<>> /\ sessionCache' # sessionCache) =>
       TokenInJar]_vars

----------------------------------------------------------------------------
(* What the session cache holds (SpecSession) *)

\* the errors of a call that reached no tab or no content script
UnreachableErrors == {ErrNotOnSplice, ErrNoCommunication, ErrTabsQuery}

\* the cache and its timestamp are set together, and the cache holds no
\* verdict of a call that reached no tab
CacheHoldsVerdictsOnly ==
  /\ (sessionCache = <<>>) <=> (sessionTimestamp = <<>>)
  /\ sessionCache # <<>> => sessionCache[1].error \notin UnreachableErrors
  /\ (authReturn.returned /\ authReturn.value.error \in UnreachableErrors) =>
       ~authReturn.cached

\* the cache is written by the return on a conclusive logged-out cookie
\* result, or by a DOM step in which the content script replied
CacheWrittenFromCookiesOrReply ==
  (sessionCache' # <<>> /\ sessionCache' # sessionCache) =>
    \/ authPc = "cookies" /\ cookiesSayLoggedOut(authCookie')
    \/ /\ authPc = "dom"
       /\ authReturn'.domCase \in {"confirmed", "denied", "reinject_confirmed"}

\* C38: the session cache holds only verdicts that came from a conclusive
\* cookie result or from a reply of the content script; a verdict of a call
\* that reached no tab or no content script is returned and not cached; and
\* sessionCache and sessionTimestamp are both set or both empty.
CacheHoldsOnlySettledVerdicts ==
  []CacheHoldsVerdictsOnly /\ [][CacheWrittenFromCookiesOrReply]_vars

\* a call that found no Splice tab returned its verdict while the cache
\* holds the verdict of an earlier call
CacheHoldsOnlySettledVerdictsWitness ==
  /\ authReturn.returned
  /\ authReturn.value.error = ErrNotOnSplice
  /\ ~authReturn.cached
  /\ sessionCache # <<>>
  /\ sessionCache[1].loggedIn
  /\ sessionTimestamp # <<>>

====
